---- MODULE Spec2Model ----
(***************************************************************************)
(* Token lifecycle of the auth controller: ephemeral tokens (confirm-email,*)
(* invite-user, reset-password, magic-login), the handlers that issue and  *)
(* consume them, and the concurrent request handlers that share the token  *)
(* store.  One action per await of a handler that reads or writes shared   *)
(* state: every await is a point where another request handler can run.    *)
(* A handler's first action is the arrival of the request together with    *)
(* its lookups up to the first read of the user, token or session state.   *)
(*                                                                         *)
(* Two controllers are modelled: the one of src/unnamed/part_000 (plain    *)
(* names) and the one of apps/auth-services/.../auth.controller.ts (names  *)
(* prefixed AS_) where the claims refer to it.                             *)
(***************************************************************************)
EXTENDS Integers, Sequences, FiniteSets, Bags, TLC

\* ---------------------------------------------------------------- bounds
\* Token values ever generated in one behaviour (pre-issued ones included).
MaxTokens == 3
\* The clock runs from 0 to MaxNow; one tick is 30 minutes.
MaxNow == 1
\* Requests started in one behaviour.
MaxStarts == 2

\* ------------------------------------------------------- program constants
\* expiresIn: '30m' and '5h', in ticks of 30 minutes.
ExpiresIn30m == 1
ExpiresIn5h == 10
\* expiresIn: '1d' of the auth-services signup.
ExpiresIn1d == 48

Envs == {"envA", "envB"}
NoEnv == "none"
PublicKeys == Envs \cup {NoEnv}
Emails == {"a@x.com", "b@x.com", "c@x.com"}
Passwords == {"pw1"}
NoPassword == "null"
Slots == {1, 2}
TokenValues == 1..MaxTokens

\* TokenTypes of the prisma schema, as the controller uses them.
ConfirmEmail == "ConfirmEmail"
InviteUser == "InviteUser"
ResetPassword == "ResetPassword"
MagicLogin == "MagicLogin"
TokenTypes == {ConfirmEmail, InviteUser, ResetPassword, MagicLogin}

\* AuthProviders of the prisma schema.
EmailAndPassword == "EmailAndPassword"
MagicLoginProvider == "MagicLogin"

VARIABLES
  environments,  \* environment id -> [authProvider, refreshTokenExpiration, enableSignUp]
  users,         \* user id -> user row (the domain is the set of rows)
  tokens,        \* token value -> token row (the domain is the set of rows)
  ledger,        \* history: token value -> [row as issued, delivered], never removed
  now,           \* the clock
  emails,        \* bag of the emails handed to emailService.send
  applied,       \* history: token value -> dependent mutations applied under it
  sessions,      \* history: the session credentials issued, as [user, environmentId, refresh]
  req,           \* slot -> the request handler running in it and its locals
  started,       \* requests started so far
  projects,      \* projects made by projectService.create, each with its environment
  TL_INTERNAL_API_KEY,  \* process.env.TL_INTERNAL_API_KEY
  emailTemplates       \* the rows of the emailTemplate table

vars ==
  <<environments, users, tokens, ledger, now, emails, applied, sessions, req, started,
    projects, TL_INTERNAL_API_KEY, emailTemplates>>

\* What no request handler but signup/owner touches.
platform == <<projects, TL_INTERNAL_API_KEY, emailTemplates>>

\* -------------------------------------------------------------- helpers
NoTv == [statusCode |-> "", type |-> "", relationId |-> 0, environmentId |-> NoEnv]

IdleReq ==
  [op |-> "idle", pc |-> "idle", key |-> NoEnv, token |-> 0, email |-> "",
   password |-> NoPassword, user |-> 0, tv |-> NoTv, newToken |-> 0, pre |-> 0,
   delDone |-> FALSE, updDone |-> FALSE, updStatus |-> "",
   emailSent |-> FALSE, refresh |-> "", status |-> "", body |-> "none",
   rotated |-> FALSE, stale |-> FALSE, apiKey |-> "", out |-> "null",
   call |-> 0, created |-> 0]

InProgress(s) == req[s].pc \notin {"idle", "done"}

Free(s) == ~InProgress(s)

\* A request takes the lowest free slot (slots are interchangeable).
CanStart(s) ==
  /\ started < MaxStarts
  /\ Free(s)
  /\ \A r \in Slots : r < s => InProgress(r)

Begin(s, r) ==
  /\ req' = [req EXCEPT ![s] = r]
  /\ started' = started + 1

Step(s, r) == req' = [req EXCEPT ![s] = r]

\* throw new exceptionsMapper[statusCode](error): the handler ends with that status.
Throw(r, statusCode) == [r EXCEPT !.pc = "done", !.status = statusCode, !.body = "error"]

\* The handler returns: status is the route's success status.
Return(r, statusCode, body) == [r EXCEPT !.pc = "done", !.status = statusCode, !.body = body]

Restrict(f, S) == [x \in S |-> f[x]]

\* Crypt.hash: the stored value is a hash, never the plain password.
Hash(p) == <<"hash", p>>

\* ------------------------------------------------------------ user service
\* userService.getByEmail: findFirst where {email, environmentId}; 0 is null.
GetByEmail(email, environmentId) ==
  LET found == {u \in DOMAIN users :
                  users[u].email = email /\ users[u].environmentId = environmentId}
  IN IF found = {} THEN 0 ELSE CHOOSE u \in found : \A v \in found : u <= v

\* userService.isActiveUser(userId, environmentId).
IsActiveUser(userId, environmentId) ==
  /\ userId \in DOMAIN users
  /\ users[userId].environmentId = environmentId
  /\ users[userId].active

\* -------------------------------------------------------- token storage
\* The next token value: newOpaqueToken never repeats a value.
NextToken == Cardinality(DOMAIN ledger) + 1

CanCreateToken == NextToken <= MaxTokens

\* tokenStorageService.create({type, relationId, expiresIn, environmentId}).
TokenRow(type, relationId, expiresIn, environmentId) ==
  [type |-> type, relationId |-> relationId, environmentId |-> environmentId,
   expires |-> now + expiresIn]

\* The token row is stored; the ledger keeps it with "delivered": whether the
\* value has reached a client (by email or in a response).
CreateToken(type, relationId, expiresIn, environmentId, delivered) ==
  /\ tokens' = tokens @@ (NextToken :> TokenRow(type, relationId, expiresIn, environmentId))
  /\ ledger' = ledger @@ (NextToken :> [row |-> TokenRow(type, relationId, expiresIn,
                                                         environmentId),
                                        delivered |-> delivered])

\* History: the token value reaches a client.
Deliver(t) == ledger' = [ledger EXCEPT ![t].delivered = TRUE]

\* Token values are unguessable: a request presents a value that was delivered
\* to a client, or a value that no token has.
Presentable(t) == IF t \in DOMAIN ledger THEN ledger[t].delivered ELSE TRUE

\* History: the token value was issued and is no longer stored.
Stale(t) == t \in DOMAIN ledger /\ t \notin DOMAIN tokens

\* tokenStorageService.delete(token): deleting an absent token is not an error.
DeleteToken(t) == tokens' = Restrict(tokens, DOMAIN tokens \ {t})

\* tokenStorageService.deleteMany(type, relationId).
DeleteMany(type, relationId) ==
  tokens' = Restrict(tokens, {t \in DOMAIN tokens :
                                ~(tokens[t].type = type /\ tokens[t].relationId = relationId)})

\* authService.validateUserTokenExpiration(token, type).
ValidateUserTokenExpiration(t, type) ==
  IF t \notin DOMAIN tokens THEN [NoTv EXCEPT !.statusCode = "NotFound"]
  ELSE IF tokens[t].type # type THEN [NoTv EXCEPT !.statusCode = "NotFound"]
  ELSE [statusCode |-> IF now > tokens[t].expires THEN "Expired" ELSE "",
        type |-> tokens[t].type,
        relationId |-> tokens[t].relationId,
        environmentId |-> tokens[t].environmentId]

\* =================================================== reset-password/request
\* Mutant: the user's active flag is not read.
requestResetPassword_Proceeds_AnyUser(u) == u # 0

\* if (user && user.active): the request goes on to delete and issue tokens.
requestResetPassword_Proceeds(u) == u # 0 /\ users[u].active

\* part_000 requestResetPassword: the environment of the request's public key
\* (Unauthorized without one), then userService.getByEmail.
requestResetPassword_Start(s, key, email) ==
  /\ CanStart(s)
  /\ LET u == GetByEmail(email, key)
         r == [IdleReq EXCEPT !.op = "requestResetPassword", !.key = key,
                              !.email = email, !.pre = Cardinality(DOMAIN ledger)]
     IN Begin(s, IF key = NoEnv THEN Throw(r, "Unauthorized")
                 ELSE IF requestResetPassword_Proceeds(u)
                 THEN [r EXCEPT !.user = u, !.pc = "deleteMany"]
                 ELSE Return([r EXCEPT !.user = u], "Created", "empty"))
  /\ UNCHANGED <<platform, sessions, environments, users, tokens, ledger, now, emails, applied>>

\* await this.tokenStorageService.deleteMany(TokenTypes.ResetPassword, user.id)
requestResetPassword_DeleteMany(s) ==
  /\ req[s].op = "requestResetPassword" /\ req[s].pc = "deleteMany"
  /\ DeleteMany(ResetPassword, req[s].user)
  /\ Step(s, [req[s] EXCEPT !.pc = "create"])
  /\ UNCHANGED <<platform, sessions, environments, users, ledger, now, emails, applied, started>>

\* const token = await this.tokenStorageService.create({expiresIn: '30m', ...})
requestResetPassword_Create(s) ==
  /\ req[s].op = "requestResetPassword" /\ req[s].pc = "create"
  /\ CanCreateToken
  /\ CreateToken(ResetPassword, req[s].user, ExpiresIn30m, req[s].key, FALSE)
  /\ Step(s, [req[s] EXCEPT !.pc = "send", !.newToken = NextToken])
  /\ UNCHANGED <<platform, sessions, environments, users, now, emails, applied, started>>

\* if (token.error) throw new exceptionsMapper[token.statusCode](token.error)
requestResetPassword_CreateFails(s) ==
  /\ req[s].op = "requestResetPassword" /\ req[s].pc = "create"
  /\ Step(s, Throw(req[s], "Internal"))
  /\ UNCHANGED <<platform, sessions, environments, users, tokens, ledger, now, emails, applied, started>>

\* await this.emailService.send({emailTemplateType: ForgotPassword, ...})
requestResetPassword_Send(s) ==
  /\ req[s].op = "requestResetPassword" /\ req[s].pc = "send"
  /\ emails' = emails (+) SetToBag({[template |-> "ForgotPassword", to |-> req[s].user,
                                     environmentId |-> req[s].key,
                                     token |-> req[s].newToken, via |-> 0]})
  /\ Step(s, Return(req[s], "Created", "empty"))
  /\ Deliver(req[s].newToken)
  /\ UNCHANGED <<platform, sessions, environments, users, tokens, now, applied, started>>

\* ------------------------------- auth-services controller, the same route
\* if (!user) throw new exceptionsMapper[StatusCodes.NotFound](UserNotFound);
\* user.active is not read.
AS_requestResetPassword_Start(s, key, email) ==
  /\ CanStart(s)
  /\ LET u == GetByEmail(email, key)
         r == [IdleReq EXCEPT !.op = "AS_requestResetPassword", !.key = key,
                              !.email = email, !.pre = Cardinality(DOMAIN ledger)]
     IN Begin(s, IF key = NoEnv THEN Throw(r, "Unauthorized")
                 ELSE IF u = 0 THEN Throw(r, "NotFound")
                 ELSE [r EXCEPT !.user = u, !.pc = "deleteMany"])
  /\ UNCHANGED <<platform, sessions, environments, users, tokens, ledger, now, emails, applied>>

AS_requestResetPassword_DeleteMany(s) ==
  /\ req[s].op = "AS_requestResetPassword" /\ req[s].pc = "deleteMany"
  /\ DeleteMany(ResetPassword, req[s].user)
  /\ Step(s, [req[s] EXCEPT !.pc = "create"])
  /\ UNCHANGED <<platform, sessions, environments, users, ledger, now, emails, applied, started>>

\* create({expiresIn: '30m', relationId, type}): no environmentId is passed.
AS_requestResetPassword_Create(s) ==
  /\ req[s].op = "AS_requestResetPassword" /\ req[s].pc = "create"
  /\ CanCreateToken
  /\ CreateToken(ResetPassword, req[s].user, ExpiresIn30m, NoEnv, FALSE)
  /\ Step(s, [req[s] EXCEPT !.pc = "send", !.newToken = NextToken])
  /\ UNCHANGED <<platform, sessions, environments, users, now, emails, applied, started>>

AS_requestResetPassword_CreateFails(s) ==
  /\ req[s].op = "AS_requestResetPassword" /\ req[s].pc = "create"
  /\ Step(s, Throw(req[s], "Internal"))
  /\ UNCHANGED <<platform, sessions, environments, users, tokens, ledger, now, emails, applied, started>>

AS_requestResetPassword_Send(s) ==
  /\ req[s].op = "AS_requestResetPassword" /\ req[s].pc = "send"
  /\ emails' = emails (+) SetToBag({[template |-> "ForgotPassword", to |-> req[s].user,
                                     environmentId |-> req[s].key,
                                     token |-> req[s].newToken, via |-> 0]})
  /\ Step(s, Return(req[s], "Created", "empty"))
  /\ Deliver(req[s].newToken)
  /\ UNCHANGED <<platform, sessions, environments, users, tokens, now, applied, started>>

\* ================================================ GET reset-password/:token
\* Mutant: an expired token is let through.
ThrowIfInvalid_ExpiredPasses(r, tv, next) ==
  IF tv.statusCode \notin {"", "Expired"} THEN Throw([r EXCEPT !.tv = tv], tv.statusCode)
  ELSE [r EXCEPT !.tv = tv, !.pc = next]

\* Mutant: only an expired token is refused.
ThrowIfInvalid_OnlyExpired(r, tv, next) ==
  IF tv.statusCode = "Expired" THEN Throw([r EXCEPT !.tv = tv], tv.statusCode)
  ELSE [r EXCEPT !.tv = tv, !.pc = next]

\* Mutant: the validation's result is not looked at.
ThrowIfInvalid_Unchecked(r, tv, next) == [r EXCEPT !.tv = tv, !.pc = next]

\* if (tokenValidation.statusCode) throw new exceptionsMapper[statusCode](error)
ThrowIfInvalid(r, tv, next) ==
  IF tv.statusCode # "" THEN Throw([r EXCEPT !.tv = tv], tv.statusCode)
  ELSE [r EXCEPT !.tv = tv, !.pc = next]

\* part_000 validateTokenResetPassword: the handler reads no environment; the
\* NeedsPublicKey guard has let the request through, so the key is a tenant's.
validateTokenResetPassword_Start(s, key, t) ==
  /\ CanStart(s)
  /\ Presentable(t)
  /\ key \in Envs
  /\ Begin(s, ThrowIfInvalid(
                [IdleReq EXCEPT !.op = "validateTokenResetPassword", !.key = key, !.stale = Stale(t),
                                !.token = t, !.pre = Cardinality(DOMAIN ledger)],
                ValidateUserTokenExpiration(t, ResetPassword), "isActiveUser"))
  /\ UNCHANGED <<platform, sessions, environments, users, tokens, ledger, now, emails, applied>>

\* Mutant: the user's active flag is not looked at.
validateTokenResetPassword_Outcome_Always(r) == Return(r, "OK", "empty")

\* if (!isActiveUser) throw new exceptionsMapper[StatusCodes.NotAcceptable](...)
validateTokenResetPassword_Outcome(r) ==
  IF IsActiveUser(r.tv.relationId, r.tv.environmentId)
  THEN Return(r, "OK", "empty")
  ELSE Throw(r, "NotAcceptable")

\* const isActiveUser = await this.userService.isActiveUser(relationId,
\* environmentId), both read from the token.
validateTokenResetPassword_IsActiveUser(s) ==
  /\ req[s].op = "validateTokenResetPassword" /\ req[s].pc = "isActiveUser"
  /\ Step(s, validateTokenResetPassword_Outcome(req[s]))
  /\ UNCHANGED <<platform, sessions, environments, users, tokens, ledger, now, emails, applied, started>>

\* ============================================== PATCH reset-password/:token
\* part_000 updateTokenResetPassword: the environment of the request's public
\* key (Unauthorized without one), then the validation as reset-password.
updateTokenResetPassword_Start(s, key, t, password) ==
  /\ CanStart(s)
  /\ Presentable(t)
  /\ LET r == [IdleReq EXCEPT !.op = "updateTokenResetPassword", !.key = key, !.stale = Stale(t),
                              !.token = t, !.password = password,
                              !.pre = Cardinality(DOMAIN ledger)]
     IN Begin(s, IF key = NoEnv THEN Throw(r, "Unauthorized")
                 ELSE ThrowIfInvalid(r, ValidateUserTokenExpiration(t, ResetPassword),
                                     "promiseAll"))
  /\ UNCHANGED <<platform, sessions, environments, users, tokens, ledger, now, emails, applied>>

\* After Promise.all: if (updatePassword?.statusCode) throw ...  A handler that
\* has already answered (pc "detached", below) only finishes its delete.
updateTokenResetPassword_Join(r) ==
  IF r.pc = "detached" THEN [r EXCEPT !.pc = "done"]
  ELSE IF r.delDone /\ r.updDone
  THEN IF r.updStatus # "" THEN Throw(r, r.updStatus) ELSE Return(r, "OK", "empty")
  ELSE r

\* updatePassword rejects: Promise.all rejects at once and the handler ends
\* with the error; a delete that has not completed yet goes on detached.
updateTokenResetPassword_Rejected(r) ==
  [Throw([r EXCEPT !.updDone = TRUE, !.updStatus = "Internal"], "Internal")
     EXCEPT !.pc = IF r.delDone THEN "done" ELSE "detached"]

\* Promise.all([this.tokenStorageService.delete(token), ...]): the delete.
updateTokenResetPassword_Delete(s) ==
  /\ req[s].op = "updateTokenResetPassword" /\ req[s].pc \in {"promiseAll", "detached"}
  /\ ~req[s].delDone
  /\ DeleteToken(req[s].token)
  /\ Step(s, updateTokenResetPassword_Join([req[s] EXCEPT !.delDone = TRUE]))
  /\ UNCHANGED <<platform, sessions, environments, users, ledger, now, emails, applied, started>>

\* userService.updatePassword(userId, environmentId, password): the row of that
\* user in that environment gets the hash of the new password; the call
\* returns an error value (NotFound, Internal) or rejects.
UpdatePasswordFinds(userId, environmentId) ==
  /\ userId \in DOMAIN users
  /\ users[userId].environmentId = environmentId

\* Promise.all([..., this.userService.updatePassword(relationId, environment.id,
\* payload.password)]): the update, with the request's environment.
updateTokenResetPassword_UpdatePassword(s) ==
  /\ req[s].op = "updateTokenResetPassword" /\ req[s].pc = "promiseAll"
  /\ ~req[s].updDone
  /\ \/ /\ UpdatePasswordFinds(req[s].tv.relationId, req[s].key)
        /\ users' = [users EXCEPT ![req[s].tv.relationId].password = Hash(req[s].password)]
        /\ applied' = [applied EXCEPT ![req[s].token] = @ + 1]
        /\ Step(s, updateTokenResetPassword_Join([req[s] EXCEPT !.updDone = TRUE]))
     \/ /\ ~UpdatePasswordFinds(req[s].tv.relationId, req[s].key)
        /\ UNCHANGED <<users, applied>>
        /\ Step(s, updateTokenResetPassword_Join(
                     [req[s] EXCEPT !.updDone = TRUE, !.updStatus = "NotFound"]))
     \/ /\ UNCHANGED <<users, applied>>
        /\ Step(s, updateTokenResetPassword_Join(
                     [req[s] EXCEPT !.updDone = TRUE, !.updStatus = "Internal"]))
     \/ /\ UNCHANGED <<users, applied>>
        /\ Step(s, updateTokenResetPassword_Rejected(req[s]))
  /\ UNCHANGED <<platform, sessions, environments, tokens, ledger, now, emails, started>>

\* ================================================= GET confirm-email/:token
\* userService.updateEmailConfirmation(userId, environmentId): the row of that
\* user in that environment is marked confirmed.
UpdateEmailConfirmationFinds(userId, environmentId) ==
  /\ userId \in DOMAIN users
  /\ users[userId].environmentId = environmentId

\* Mutant: an expired confirm-email token is confirmed like a live one.
confirmEmail_AfterValidation_ExpiredConfirms(r, tv) ==
  IF tv.statusCode # ""
  THEN IF tv.type = ConfirmEmail /\ tv.relationId # 0
       THEN [r EXCEPT !.tv = tv, !.pc = "updateEmailConfirmation"]
       ELSE Throw([r EXCEPT !.tv = tv], tv.statusCode)
  ELSE [r EXCEPT !.tv = tv, !.pc = "updateEmailConfirmation"]

\* Where the handler goes once its validations are made: the expired
\* confirm-email token is retried, any other failure is thrown.
confirmEmail_AfterValidation(r, tv) ==
  IF tv.statusCode # ""
  THEN IF tv.type = ConfirmEmail /\ tv.relationId # 0
       THEN [r EXCEPT !.tv = tv, !.pc = "sendConfirmationEmail"]
       ELSE Throw([r EXCEPT !.tv = tv], tv.statusCode)
  ELSE [r EXCEPT !.tv = tv, !.pc = "updateEmailConfirmation"]

\* if (tokenValidation?.statusCode === StatusCodes.NotFound): validate again,
\* as invite-user.
confirmEmail_AfterFirstValidation(r, tv) ==
  IF tv.statusCode = "NotFound"
  THEN [r EXCEPT !.tv = tv, !.pc = "validateInviteUser"]
  ELSE confirmEmail_AfterValidation(r, tv)

\* part_000 confirmEmail: the handler reads no environment from the request;
\* let tokenValidation = await validateUserTokenExpiration(token, ConfirmEmail)
confirmEmail_Start(s, key, t) ==
  /\ CanStart(s)
  /\ Presentable(t)
  /\ key \in Envs
  /\ Begin(s, confirmEmail_AfterFirstValidation(
                [IdleReq EXCEPT !.op = "confirmEmail", !.key = key, !.stale = Stale(t), !.token = t,
                                !.pre = Cardinality(DOMAIN ledger)],
                ValidateUserTokenExpiration(t, ConfirmEmail)))
  /\ UNCHANGED <<platform, sessions, environments, users, tokens, ledger, now, emails, applied>>

\* tokenValidation = await validateUserTokenExpiration(token, InviteUser)
confirmEmail_ValidateInviteUser(s) ==
  /\ req[s].op = "confirmEmail" /\ req[s].pc = "validateInviteUser"
  /\ Step(s, confirmEmail_AfterValidation(
               req[s], ValidateUserTokenExpiration(req[s].token, InviteUser)))
  /\ UNCHANGED <<platform, sessions, environments, users, tokens, ledger, now, emails, applied, started>>

\* const emailSent = await this.userService.sendConfirmationEmail(relationId,
\* environmentId): a fresh confirm-email token is issued and mailed to the
\* user, or the call reports an error and emailSent.data is unset.
confirmEmail_SendConfirmationEmail(s) ==
  /\ req[s].op = "confirmEmail" /\ req[s].pc = "sendConfirmationEmail"
  /\ \/ /\ req[s].tv.relationId \in DOMAIN users
        /\ CanCreateToken
        /\ CreateToken(ConfirmEmail, req[s].tv.relationId, ExpiresIn5h,
                       req[s].tv.environmentId, TRUE)
        /\ emails' = emails (+) SetToBag({[template |-> "ConfirmEmail",
                                           to |-> req[s].tv.relationId,
                                           environmentId |-> req[s].tv.environmentId,
                                           token |-> NextToken, via |-> req[s].token]})
        /\ Step(s, [req[s] EXCEPT !.pc = "deleteStale", !.emailSent = TRUE])
     \/ /\ UNCHANGED <<tokens, ledger, emails>>
        /\ Step(s, [req[s] EXCEPT !.pc = "deleteStale", !.emailSent = FALSE])
  /\ UNCHANGED <<platform, sessions, environments, users, now, applied, started>>

\* if (emailSent.data) throw NotAcceptable {emailResent: true}; otherwise the
\* validation's own failure is thrown.
confirmEmail_RetryOutcome(r) ==
  IF r.emailSent
  THEN [Throw(r, "NotAcceptable") EXCEPT !.body = "emailResent"]
  ELSE Throw(r, r.tv.statusCode)

\* await this.tokenStorageService.delete(token), on the retry path.
confirmEmail_DeleteStale(s) ==
  /\ req[s].op = "confirmEmail" /\ req[s].pc = "deleteStale"
  /\ DeleteToken(req[s].token)
  /\ Step(s, confirmEmail_RetryOutcome(req[s]))
  /\ UNCHANGED <<platform, sessions, environments, users, ledger, now, emails, applied, started>>

\* const updateEmailConfirmation = await this.userService.updateEmailConfirmation(
\* userId, environmentId), both read from the token.
confirmEmail_UpdateEmailConfirmation(s) ==
  /\ req[s].op = "confirmEmail" /\ req[s].pc = "updateEmailConfirmation"
  /\ \/ /\ UpdateEmailConfirmationFinds(req[s].tv.relationId, req[s].tv.environmentId)
        /\ users' = [users EXCEPT ![req[s].tv.relationId].emailConfirmed = TRUE]
        /\ applied' = [applied EXCEPT ![req[s].token] = @ + 1]
        /\ Step(s, [req[s] EXCEPT !.pc = "delete"])
     \/ /\ ~UpdateEmailConfirmationFinds(req[s].tv.relationId, req[s].tv.environmentId)
        /\ UNCHANGED <<users, applied>>
        /\ Step(s, [req[s] EXCEPT !.pc = "delete", !.updStatus = "NotFound"])
     \/ /\ UNCHANGED <<users, applied>>
        /\ Step(s, [req[s] EXCEPT !.pc = "delete", !.updStatus = "Internal"])
  /\ UNCHANGED <<platform, sessions, environments, tokens, ledger, now, emails, started>>

\* Mutant: the follow-up token is chosen by the other auth provider.
confirmEmail_FollowUp_Swapped(r) ==
  LET u == r.tv.relationId
      e == r.tv.environmentId
  IN IF r.tv.type = InviteUser /\ ~users[u].lastSignIn
     THEN IF environments[e].authProvider = MagicLoginProvider
          THEN [r EXCEPT !.user = u, !.pc = "generateResetPasswordToken"]
          ELSE [r EXCEPT !.user = u, !.pc = "generateMagicLoginToken"]
     ELSE Return([r EXCEPT !.user = u], "OK", "empty")

\* Mutant: user.lastSignIn is not read.
confirmEmail_FollowUp_AnyInvite(r) ==
  LET u == r.tv.relationId
      e == r.tv.environmentId
  IN IF r.tv.type = InviteUser
     THEN IF environments[e].authProvider = EmailAndPassword
          THEN [r EXCEPT !.user = u, !.pc = "generateResetPasswordToken"]
          ELSE IF environments[e].authProvider = MagicLoginProvider
          THEN [r EXCEPT !.user = u, !.pc = "generateMagicLoginToken"]
          ELSE Throw([r EXCEPT !.user = u], "Internal")
     ELSE Return([r EXCEPT !.user = u], "OK", "empty")

\* Mutant: any provider but EmailAndPassword gets a magic-login token.
confirmEmail_FollowUp_DefaultsToMagic(r) ==
  LET u == r.tv.relationId
      e == r.tv.environmentId
  IN IF r.tv.type = InviteUser /\ ~users[u].lastSignIn
     THEN IF environments[e].authProvider = EmailAndPassword
          THEN [r EXCEPT !.user = u, !.pc = "generateResetPasswordToken"]
          ELSE [r EXCEPT !.user = u, !.pc = "generateMagicLoginToken"]
     ELSE Return([r EXCEPT !.user = u], "OK", "empty")

\* The branch after the confirmation: an invite-user token of a user who never
\* signed in gets a follow-up token by the tenant's auth provider.
confirmEmail_FollowUp(r) ==
  LET u == r.tv.relationId
      e == r.tv.environmentId
  IN IF r.tv.type = InviteUser /\ ~users[u].lastSignIn
     THEN IF environments[e].authProvider = EmailAndPassword
          THEN [r EXCEPT !.user = u, !.pc = "generateResetPasswordToken"]
          ELSE IF environments[e].authProvider = MagicLoginProvider
          THEN [r EXCEPT !.user = u, !.pc = "generateMagicLoginToken"]
          ELSE Throw([r EXCEPT !.user = u], "Internal")
     ELSE Return([r EXCEPT !.user = u], "OK", "empty")

\* Mutant: the handler fails when the token it deletes is already gone.
confirmEmail_Delete_Checked(s) ==
  /\ req[s].op = "confirmEmail" /\ req[s].pc = "delete"
  /\ DeleteToken(req[s].token)
  /\ Step(s, IF req[s].token \notin DOMAIN tokens THEN Throw(req[s], "NotFound")
             ELSE IF req[s].updStatus # "" THEN Throw(req[s], req[s].updStatus)
             ELSE [req[s] EXCEPT !.pc = "getById"])
  /\ UNCHANGED <<platform, sessions, environments, users, ledger, now, emails, applied, started>>

\* await this.tokenStorageService.delete(token); if (updateEmailConfirmation
\* ?.statusCode) throw ...
confirmEmail_Delete(s) ==
  /\ req[s].op = "confirmEmail" /\ req[s].pc = "delete"
  /\ DeleteToken(req[s].token)
  /\ Step(s, IF req[s].updStatus # "" THEN Throw(req[s], req[s].updStatus)
             ELSE [req[s] EXCEPT !.pc = "getById"])
  /\ UNCHANGED <<platform, sessions, environments, users, ledger, now, emails, applied, started>>

\* const user = await getById(userId); const environment = await getById(
\* environmentId); then the branch on the token's type and user.lastSignIn.
confirmEmail_GetById(s) ==
  /\ req[s].op = "confirmEmail" /\ req[s].pc = "getById"
  /\ Step(s, confirmEmail_FollowUp(req[s]))
  /\ UNCHANGED <<platform, sessions, environments, users, tokens, ledger, now, emails, applied, started>>

\* authService.generateResetPasswordToken(user.id, environmentId); the response
\* carries {tokenType: ResetPassword, token, email}.
confirmEmail_GenerateResetPasswordToken(s) ==
  /\ req[s].op = "confirmEmail" /\ req[s].pc = "generateResetPasswordToken"
  /\ \/ /\ CanCreateToken
        /\ CreateToken(ResetPassword, req[s].user, ExpiresIn30m, req[s].tv.environmentId,
                       TRUE)
        /\ Step(s, Return([req[s] EXCEPT !.newToken = NextToken,
                                          !.email = users[req[s].user].email],
                           "OK", ResetPassword))
     \/ /\ UNCHANGED <<tokens, ledger>>
        /\ Step(s, Throw(req[s], "Internal"))
  /\ UNCHANGED <<platform, sessions, environments, users, now, emails, applied, started>>

\* authService.generateMagicLoginToken(user.id, environmentId); the response
\* carries {tokenType: MagicLogin, token}.
confirmEmail_GenerateMagicLoginToken(s) ==
  /\ req[s].op = "confirmEmail" /\ req[s].pc = "generateMagicLoginToken"
  /\ \/ /\ CanCreateToken
        /\ CreateToken(MagicLogin, req[s].user, ExpiresIn30m, req[s].tv.environmentId,
                       TRUE)
        /\ Step(s, Return([req[s] EXCEPT !.newToken = NextToken], "OK", MagicLogin))
     \/ /\ UNCHANGED <<tokens, ledger>>
        /\ Step(s, Throw(req[s], "Internal"))
  /\ UNCHANGED <<platform, sessions, environments, users, now, emails, applied, started>>

\* ----------------------------- auth-services controller, the same route
\* auth.controller.ts confirmEmail: the environment of the public key
\* (Unauthorized without one), then the validation as confirm-email only.
AS_confirmEmail_Start(s, key, t) ==
  /\ CanStart(s)
  /\ Presentable(t)
  /\ LET r == [IdleReq EXCEPT !.op = "AS_confirmEmail", !.key = key, !.token = t,
                              !.stale = Stale(t), !.pre = Cardinality(DOMAIN ledger)]
     IN Begin(s, IF key = NoEnv THEN Throw(r, "Unauthorized")
                 ELSE ThrowIfInvalid(r, ValidateUserTokenExpiration(t, ConfirmEmail),
                                     "updateEmailConfirmation"))
  /\ UNCHANGED <<platform, sessions, environments, users, tokens, ledger, now, emails, applied>>

\* await this.userService.updateEmailConfirmation(relationId, environment.id):
\* the result is not read and the token is not deleted.
AS_confirmEmail_UpdateEmailConfirmation(s) ==
  /\ req[s].op = "AS_confirmEmail" /\ req[s].pc = "updateEmailConfirmation"
  /\ \/ /\ UpdateEmailConfirmationFinds(req[s].tv.relationId, req[s].key)
        /\ users' = [users EXCEPT ![req[s].tv.relationId].emailConfirmed = TRUE]
        /\ applied' = [applied EXCEPT ![req[s].token] = @ + 1]
     \/ /\ UNCHANGED <<users, applied>>
  /\ Step(s, Return([req[s] EXCEPT !.user = req[s].tv.relationId], "OK", "empty"))
  /\ UNCHANGED <<platform, sessions, environments, tokens, ledger, now, emails, started>>

\* ========================================================= GET magic/:token
\* tokenStorageService.createAuthTokens(user, environment): the access token is
\* always issued, the refresh token only when the tenant's lifetime is set.
SessionFor(userId, environmentId) ==
  [user |-> userId, environmentId |-> environmentId,
   refresh |-> IF environmentId \in Envs
               THEN environments[environmentId].refreshTokenExpiration # "null"
               ELSE FALSE]

\* part_000 authenticateFromMagicLink delegates to authService
\* .authenticateFromMagicLink({token}): validate as magic-login, consume, issue.
authenticateFromMagicLink_Start(s, key, t) ==
  /\ CanStart(s)
  /\ Presentable(t)
  /\ key \in Envs
  /\ Begin(s, ThrowIfInvalid(
                [IdleReq EXCEPT !.op = "authenticateFromMagicLink", !.key = key, !.stale = Stale(t),
                                !.token = t, !.pre = Cardinality(DOMAIN ledger)],
                ValidateUserTokenExpiration(t, MagicLogin), "consume"))
  /\ UNCHANGED <<platform, sessions, environments, users, tokens, ledger, now, emails, applied>>

authenticateFromMagicLink_Consume(s) ==
  /\ req[s].op = "authenticateFromMagicLink" /\ req[s].pc = "consume"
  /\ DeleteToken(req[s].token)
  /\ sessions' = sessions \cup {SessionFor(req[s].tv.relationId, req[s].tv.environmentId)}
  /\ applied' = [applied EXCEPT ![req[s].token] = @ + 1]
  /\ Step(s, Return([req[s] EXCEPT !.user = req[s].tv.relationId], "OK", "session"))
  /\ UNCHANGED <<platform, environments, users, ledger, now, emails, started>>

\* ============================================================ POST refresh
RefreshTokens == {"valid", "expired", "malformed"}
\* The user the presented refresh tokens were issued to.
RefreshSubject == 1

\* if (!environment.refreshTokenExpiration) throw Unauthorized
RefreshDisabled(environmentId) ==
  environments[environmentId].refreshTokenExpiration = "null"

\* part_000 reAuthenticateFromRefreshToken: the environment id is the tl-env-id
\* header (HasEnvAccess has let the request through); getById; the guard.
reAuthenticateFromRefreshToken_Start(s, environmentId, refreshToken) ==
  /\ CanStart(s)
  /\ environmentId \in Envs
  /\ LET r == [IdleReq EXCEPT !.op = "reAuthenticateFromRefreshToken",
                              !.key = environmentId, !.refresh = refreshToken]
     IN Begin(s, IF RefreshDisabled(environmentId) THEN Throw(r, "Unauthorized")
                 ELSE [r EXCEPT !.pc = "rotate"])
  /\ UNCHANGED <<platform, sessions, environments, users, tokens, ledger, now, emails, applied>>

\* const data = await this.authService.reAuthenticateFromRefreshToken(...);
\* if (data?.error) throw ...; return data.
reAuthenticateFromRefreshToken_Rotate(s) ==
  /\ req[s].op = "reAuthenticateFromRefreshToken" /\ req[s].pc = "rotate"
  /\ IF req[s].refresh = "valid"
     THEN /\ sessions' = sessions \cup {SessionFor(RefreshSubject, req[s].key)}
          /\ Step(s, Return([req[s] EXCEPT !.rotated = TRUE], "Created", "session"))
     ELSE /\ UNCHANGED sessions
          /\ Step(s, Throw([req[s] EXCEPT !.rotated = TRUE], "Unauthorized"))
  /\ UNCHANGED <<platform, environments, users, tokens, ledger, now, emails, applied, started>>

\* ----------------------------- auth-services controller, the same route
\* if (!req.headers.authorization) throw Unauthorized; the environment id is
\* read from the session; there is no guard on refreshTokenExpiration.
AS_reAuthenticateFromRefreshToken_Start(s, authorization, environmentId, refreshToken) ==
  /\ CanStart(s)
  /\ environmentId \in Envs
  /\ LET r == [IdleReq EXCEPT !.op = "AS_reAuthenticateFromRefreshToken",
                              !.key = environmentId, !.refresh = refreshToken]
     IN Begin(s, IF ~authorization THEN Throw(r, "Unauthorized")
                 ELSE [r EXCEPT !.pc = "rotate"])
  /\ UNCHANGED <<platform, sessions, environments, users, tokens, ledger, now, emails, applied>>

\* const data = await this.authService.reAuthenticateFromRefreshToken(...);
\* return data: an error value is returned as the response, not thrown.
AS_reAuthenticateFromRefreshToken_Rotate(s) ==
  /\ req[s].op = "AS_reAuthenticateFromRefreshToken" /\ req[s].pc = "rotate"
  /\ IF req[s].refresh = "valid"
     THEN /\ sessions' = sessions \cup {SessionFor(RefreshSubject, req[s].key)}
          /\ Step(s, Return([req[s] EXCEPT !.rotated = TRUE], "Created", "session"))
     ELSE /\ UNCHANGED sessions
          /\ Step(s, Return([req[s] EXCEPT !.rotated = TRUE], "Created", "errorValue"))
  /\ UNCHANGED <<platform, environments, users, tokens, ledger, now, emails, applied, started>>

\* ============================================================= POST signup
NextUser == Cardinality(DOMAIN users) + 1

\* UserService.create: the row written by databaseService.user.create; the
\* data holds email, fullName, password and thonLabsUser, and no environmentId.
UserService_create_Row(email, password) ==
  [email |-> email, environmentId |-> NoEnv, active |-> TRUE,
   emailConfirmed |-> FALSE,
   password |-> IF password # NoPassword THEN Hash(password) ELSE NoPassword,
   lastSignIn |-> FALSE, thonLabsUser |-> FALSE]

\* Mutant: every signup gets a confirm-email token.
signUp_TokenType_AlwaysConfirm(password) == ConfirmEmail

\* Mutant: the branches of the token type are swapped.
signUp_TokenType_Swapped(password) ==
  IF password # NoPassword THEN MagicLogin ELSE ConfirmEmail

\* type: payload.password ? TokenTypes.ConfirmEmail : TokenTypes.MagicLogin
signUp_TokenType(password) == IF password # NoPassword THEN ConfirmEmail ELSE MagicLogin

\* expiresIn: payload.password ? '5h' : '30m'
signUp_ExpiresIn(password) == IF password # NoPassword THEN ExpiresIn5h ELSE ExpiresIn30m

\* part_000 signUp: the environment of the public key (Unauthorized without
\* one), enableSignUp (Forbidden when unset), then UserService.create up to its
\* getByEmail (Conflict when the email is found in the environment).
signUp_Start(s, key, email, password) ==
  /\ CanStart(s)
  /\ LET r == [IdleReq EXCEPT !.op = "signUp", !.key = key, !.email = email,
                              !.password = password,
                              !.pre = Cardinality(DOMAIN ledger)]
     IN Begin(s, IF key = NoEnv THEN Throw(r, "Unauthorized")
                 ELSE IF ~environments[key].enableSignUp THEN Throw(r, "Forbidden")
                 ELSE IF GetByEmail(email, key) # 0 THEN Throw(r, "Conflict")
                 ELSE [r EXCEPT !.pc = "userCreate"])
  /\ UNCHANGED <<platform, sessions, environments, users, tokens, ledger, now, emails, applied>>

\* UserService.create: await this.databaseService.user.create(...) in its try,
\* delete user.password; the catch returns Internal.
signUp_UserCreate(s) ==
  /\ req[s].op = "signUp" /\ req[s].pc = "userCreate"
  /\ \/ /\ users' = users @@ (NextUser :> UserService_create_Row(req[s].email,
                                                                 req[s].password))
        /\ Step(s, [req[s] EXCEPT !.user = NextUser, !.out = NoPassword,
                                  !.pc = "tokenCreate"])
     \/ /\ UNCHANGED users
        /\ Step(s, Throw(req[s], "Internal"))
  /\ UNCHANGED <<platform, sessions, environments, tokens, ledger, now, emails, applied, started>>

\* await this.tokenStorageService.create({relationId: user.id, type, expiresIn,
\* environmentId}); if (tokenError.error) throw ...
signUp_TokenCreate(s) ==
  /\ req[s].op = "signUp" /\ req[s].pc = "tokenCreate"
  /\ \/ /\ CanCreateToken
        /\ CreateToken(signUp_TokenType(req[s].password), req[s].user,
                       signUp_ExpiresIn(req[s].password), req[s].key, FALSE)
        /\ Step(s, [req[s] EXCEPT !.newToken = NextToken,
                                  !.pc = IF req[s].password # NoPassword
                                         THEN "createAuthTokens" ELSE "send"])
     \/ /\ UNCHANGED <<tokens, ledger>>
        /\ Step(s, Throw(req[s], "Internal"))
  /\ UNCHANGED <<platform, sessions, environments, users, now, emails, applied, started>>

\* const { data: tokens } = await this.tokenStorageService.createAuthTokens(user,
\* environment)
signUp_CreateAuthTokens(s) ==
  /\ req[s].op = "signUp" /\ req[s].pc = "createAuthTokens"
  /\ sessions' = sessions \cup {SessionFor(req[s].user, req[s].key)}
  /\ Step(s, [req[s] EXCEPT !.pc = "send"])
  /\ UNCHANGED <<platform, environments, users, tokens, ledger, now, emails, applied, started>>

\* The two emails of Promise.all: the one carrying the token, and Welcome
\* with scheduledAt set.
signUp_Emails(r) ==
  SetToBag({[template |-> IF r.password # NoPassword THEN "ConfirmEmail" ELSE "MagicLink",
             to |-> r.user, environmentId |-> r.key, token |-> r.newToken, via |-> 0],
            [template |-> "Welcome", to |-> r.user, environmentId |-> r.key,
             token |-> 0, via |-> 0, scheduled |-> TRUE]})

\* await Promise.all([send(...), send(...Welcome)]); return tokens (with a
\* password) or nothing.
signUp_Send(s) ==
  /\ req[s].op = "signUp" /\ req[s].pc = "send"
  /\ emails' = emails (+) signUp_Emails(req[s])
  /\ Step(s, Return(req[s], "Created",
                    IF req[s].password # NoPassword THEN "session" ELSE "empty"))
  /\ Deliver(req[s].newToken)
  /\ UNCHANGED <<platform, sessions, environments, users, tokens, now, applied, started>>

\* ----------------------------- auth-services controller, the same route
\* expiresIn: payload.password ? '1d' : '30m'
AS_signUp_ExpiresIn(password) == IF password # NoPassword THEN ExpiresIn1d ELSE ExpiresIn30m

\* auth.controller.ts signUp: the environment of the public key (Unauthorized
\* without one), then UserService.create up to its getByEmail; enableSignUp is
\* not read.
AS_signUp_Start(s, key, email, password) ==
  /\ CanStart(s)
  /\ LET r == [IdleReq EXCEPT !.op = "AS_signUp", !.key = key, !.email = email,
                              !.password = password,
                              !.pre = Cardinality(DOMAIN ledger)]
     IN Begin(s, IF key = NoEnv THEN Throw(r, "Unauthorized")
                 ELSE IF GetByEmail(email, key) # 0 THEN Throw(r, "Conflict")
                 ELSE [r EXCEPT !.pc = "userCreate"])
  /\ UNCHANGED <<platform, sessions, environments, users, tokens, ledger, now, emails, applied>>

\* UserService.create: databaseService.user.create, or its catch (Internal).
AS_signUp_UserCreate(s) ==
  /\ req[s].op = "AS_signUp" /\ req[s].pc = "userCreate"
  /\ \/ /\ users' = users @@ (NextUser :> UserService_create_Row(req[s].email,
                                                                 req[s].password))
        /\ Step(s, [req[s] EXCEPT !.user = NextUser, !.pc = "tokenCreate"])
     \/ /\ UNCHANGED users
        /\ Step(s, Throw(req[s], "Internal"))
  /\ UNCHANGED <<platform, sessions, environments, tokens, ledger, now, emails, applied, started>>

\* await this.tokenStorageService.create({relationId, type, expiresIn}): no
\* environmentId is given.
AS_signUp_TokenCreate(s) ==
  /\ req[s].op = "AS_signUp" /\ req[s].pc = "tokenCreate"
  /\ \/ /\ CanCreateToken
        /\ CreateToken(signUp_TokenType(req[s].password), req[s].user,
                       AS_signUp_ExpiresIn(req[s].password), NoEnv, FALSE)
        /\ Step(s, [req[s] EXCEPT !.newToken = NextToken, !.pc = "send"])
     \/ /\ UNCHANGED <<tokens, ledger>>
        /\ Step(s, Throw(req[s], "Internal"))
  /\ UNCHANGED <<platform, sessions, environments, users, now, emails, applied, started>>

\* With a password: emailService.send(ConfirmEmail) is triggered and not
\* awaited, createAuthTokens is awaited and its tokens returned; without one:
\* the MagicLink email is awaited and nothing is returned.
AS_signUp_Send(s) ==
  /\ req[s].op = "AS_signUp" /\ req[s].pc = "send"
  /\ emails' = emails (+) SetToBag({[template |-> IF req[s].password # NoPassword
                                                  THEN "ConfirmEmail" ELSE "MagicLink",
                                     to |-> req[s].user, environmentId |-> req[s].key,
                                     token |-> req[s].newToken, via |-> 0]})
  /\ sessions' = IF req[s].password # NoPassword
                 THEN sessions \cup {SessionFor(req[s].user, req[s].key)}
                 ELSE sessions
  /\ Step(s, Return(req[s], "Created",
                    IF req[s].password # NoPassword THEN "session" ELSE "empty"))
  /\ Deliver(req[s].newToken)
  /\ UNCHANGED <<platform, environments, users, tokens, now, applied, started>>

\* ======================================================= POST signup/owner
OwnerEmail == "gustavo@gsales.io"
\* A header or a configuration value that is not set.
Undefined == "undefined"
\* Values of the thon-labs-staff-api-key header; Undefined: no header.
StaffApiKeys == {"secret", "secret2", "wrong", Undefined}
\* Values the shared secret is configured with at startup.
ConfiguredApiKeys == {"secret", "secret2"}
\* payload.password of signup/owner.
OwnerPasswords == {"pw1", "pw2"}
\* Ids of the environments projectService.create makes, in order of creation.
OwnerEnvIds == <<"tl1", "tl2", "tl3", "tl4">>

\* Mutant: every request is let through.
StaffApiKeyRejected_Never(apiKey) == FALSE

\* if (headers['thon-labs-staff-api-key'] !== process.env.TL_INTERNAL_API_KEY)
StaffApiKeyRejected(apiKey) == apiKey # TL_INTERNAL_API_KEY

\* UserService.getOurByEmail: findFirst where {email, thonLabsUser: true}.
GetOurByEmail(email) ==
  LET found == {u \in DOMAIN users : users[u].email = email /\ users[u].thonLabsUser}
  IN IF found = {} THEN 0 ELSE CHOOSE u \in found : \A v \in found : u <= v

\* UserService.createOwner: the row written by databaseService.user.create.
UserService_createOwner_Row(password) ==
  [email |-> OwnerEmail, environmentId |-> NoEnv, active |-> TRUE,
   emailConfirmed |-> TRUE, password |-> Hash(password), lastSignIn |-> FALSE,
   thonLabsUser |-> TRUE]

\* part_000 signUpOwner: the shared secret, then UserService.createOwner up to
\* getOurByEmail: an existing owner is returned as read, password included.
signUpOwner_Start(s, apiKey, password) ==
  /\ CanStart(s)
  /\ LET r == [IdleReq EXCEPT !.op = "signUpOwner", !.apiKey = apiKey,
                              !.password = password]
         owner == GetOurByEmail(OwnerEmail)
     IN Begin(s, IF StaffApiKeyRejected(apiKey) THEN Throw(r, "Unauthorized")
                 ELSE IF owner # 0
                 THEN [r EXCEPT !.user = owner, !.out = users[owner].password,
                                !.pc = "projectCreate"]
                 ELSE [r EXCEPT !.pc = "ownerCreate"])
  /\ UNCHANGED <<platform, sessions, environments, users, tokens, ledger, now, emails, applied>>

\* UserService.createOwner: Crypt.hash, databaseService.user.create, delete
\* user.password.
signUpOwner_OwnerCreate(s) ==
  /\ req[s].op = "signUpOwner" /\ req[s].pc = "ownerCreate"
  /\ users' = users @@ (NextUser :> UserService_createOwner_Row(req[s].password))
  /\ Step(s, [req[s] EXCEPT !.user = NextUser, !.out = NoPassword,
                            !.pc = "projectCreate"])
  /\ UNCHANGED <<platform, sessions, environments, tokens, ledger, now, emails, applied, started>>

\* await this.projectService.create({appName: 'ThonLabs', userId, main: true}):
\* a project and its environment are made, whether or not the owner is new.
signUpOwner_ProjectCreate(s) ==
  /\ req[s].op = "signUpOwner" /\ req[s].pc = "projectCreate"
  /\ Len(projects) < Len(OwnerEnvIds)
  /\ projects' = Append(projects, [userId |-> req[s].user, main |-> TRUE,
                                   environmentId |-> OwnerEnvIds[Len(projects) + 1],
                                   authProvider |-> Undefined,
                                   enableSignUp |-> FALSE])
  /\ Step(s, [req[s] EXCEPT !.key = OwnerEnvIds[Len(projects) + 1], !.pc = "settle"])
  /\ UNCHANGED <<TL_INTERNAL_API_KEY, emailTemplates, sessions, environments, users, tokens, ledger, now,
                 emails, applied, started>>

\* Promise.all([setEnvironment(user.id, environment.id), updateAuthSettings(
\* environment.id, {authProvider: EmailAndPassword, enableSignUp: true}),
\* getPublicKey]); return {user, project, ...environment, publicKey}.
signUpOwner_Settle(s) ==
  /\ req[s].op = "signUpOwner" /\ req[s].pc = "settle"
  /\ users' = [users EXCEPT ![req[s].user].environmentId = req[s].key]
  /\ projects' = [n \in DOMAIN projects |->
                    IF projects[n].environmentId = req[s].key
                    THEN [projects[n] EXCEPT !.authProvider = EmailAndPassword,
                                             !.enableSignUp = TRUE]
                    ELSE projects[n]]
  /\ Step(s, Return(req[s], "Created", "owner"))
  /\ UNCHANGED <<TL_INTERNAL_API_KEY, emailTemplates, sessions, environments, tokens, ledger, now,
                 emails, applied, started>>

\* ============================================================== POST login
\* The passwords a login may carry: the one users were created with, a wrong
\* one, or none.
LoginPasswords == {"pw0", "pw1", NoPassword}

\* part_000 login: if (authProvider === EmailAndPassword && payload.password)
\* ... else if (authProvider === MagicLogin) ... else throw Unauthorized.
login_Branch(authProvider, password) ==
  IF authProvider = EmailAndPassword /\ password # NoPassword
  THEN "authenticateFromEmailAndPassword"
  ELSE IF authProvider = MagicLoginProvider THEN "sendMagicLink"
  ELSE "Unauthorized"

\* part_000 login: the environment of the public key (Unauthorized without
\* one), then the branch on environment.authProvider and payload.password.
login_Start(s, key, email, password) ==
  /\ CanStart(s)
  /\ LET r == [IdleReq EXCEPT !.op = "login", !.key = key, !.email = email,
                              !.password = password, !.pre = Cardinality(DOMAIN ledger)]
     IN Begin(s, IF key = NoEnv THEN Throw(r, "Unauthorized")
                 ELSE LET b == login_Branch(environments[key].authProvider, password)
                      IN IF b = "Unauthorized" THEN Throw(r, "Unauthorized")
                         ELSE [r EXCEPT !.pc = b])
  /\ UNCHANGED <<platform, sessions, environments, users, tokens, ledger, now, emails, applied>>

\* authService.authenticateFromEmailAndPassword(email, password, environmentId):
\* the same error for an unknown user and a wrong password, an error for an
\* inactive user, session credentials otherwise.
AuthenticateFromEmailAndPassword(r) ==
  LET u == GetByEmail(r.email, r.key)
  IN IF u = 0 THEN Throw(r, "Unauthorized")
     ELSE IF users[u].password = NoPassword THEN Throw([r EXCEPT !.user = u], "Unauthorized")
     ELSE IF users[u].password # Hash(r.password) THEN Throw([r EXCEPT !.user = u], "Unauthorized")
     ELSE IF ~users[u].active THEN Throw([r EXCEPT !.user = u], "NotAcceptable")
     ELSE Return([r EXCEPT !.user = u], "OK", "session")

\* const result = await this.authService.authenticateFromEmailAndPassword(...);
\* if (result?.error) throw ...; return result.data
login_AuthenticateFromEmailAndPassword(s) ==
  /\ req[s].op \in {"login", "AS_login"}
  /\ req[s].pc = "authenticateFromEmailAndPassword"
  /\ LET r == AuthenticateFromEmailAndPassword(req[s])
     IN /\ Step(s, r)
        /\ sessions' = IF r.body = "session"
                       THEN sessions \cup {SessionFor(r.user, r.key)} ELSE sessions
  /\ UNCHANGED <<platform, environments, users, tokens, ledger, now, emails, applied, started>>

\* const result = await this.authService.sendMagicLink({email, environment});
\* if (result?.error) throw ...; return {emailSent: true}.  The service issues
\* a magic-login token for the user of that email and mails it, or returns an
\* error (no such user, storage failure).
login_SendMagicLink(s) ==
  /\ req[s].op = "login" /\ req[s].pc = "sendMagicLink"
  /\ LET u == GetByEmail(req[s].email, req[s].key)
     IN \/ /\ u # 0
           /\ CanCreateToken
           /\ CreateToken(MagicLogin, u, ExpiresIn30m, req[s].key, TRUE)
           /\ emails' = emails (+) SetToBag({[template |-> "MagicLink", to |-> u,
                                              environmentId |-> req[s].key,
                                              token |-> NextToken, via |-> 0]})
           /\ Step(s, Return([req[s] EXCEPT !.user = u, !.newToken = NextToken,
                                            !.emailSent = TRUE], "OK", "emailSent"))
        \/ /\ UNCHANGED <<tokens, ledger, emails>>
           /\ Step(s, Throw([req[s] EXCEPT !.user = u],
                            IF u = 0 THEN "NotFound" ELSE "Internal"))
  /\ UNCHANGED <<platform, sessions, environments, users, now, applied, started>>

\* ----------------------------- auth-services controller, the same route
\* auth.controller.ts login: if (payload.password) authenticate, else
\* loginOrCreateFromMagicLink; environment.authProvider is not read.
AS_login_Start(s, key, email, password) ==
  /\ CanStart(s)
  /\ LET r == [IdleReq EXCEPT !.op = "AS_login", !.key = key, !.email = email,
                              !.password = password, !.pre = Cardinality(DOMAIN ledger)]
     IN Begin(s, IF key = NoEnv THEN Throw(r, "Unauthorized")
                 ELSE IF password # NoPassword
                 THEN [r EXCEPT !.pc = "authenticateFromEmailAndPassword"]
                 ELSE [r EXCEPT !.pc = "loginOrCreateFromMagicLink"])
  /\ UNCHANGED <<platform, sessions, environments, users, tokens, ledger, now, emails, applied>>

\* const result = await this.authService.loginOrCreateFromMagicLink({email,
\* environment}); if (result?.error) throw ...: the handler returns nothing.
\* The service creates the user when the email has none in the environment,
\* issues a magic-login token and mails it, or returns an error.
AS_login_LoginOrCreateFromMagicLink(s) ==
  /\ req[s].op = "AS_login" /\ req[s].pc = "loginOrCreateFromMagicLink"
  /\ LET found == GetByEmail(req[s].email, req[s].key)
         u == IF found = 0 THEN NextUser ELSE found
     IN \/ /\ CanCreateToken
           /\ users' = IF found = 0
                       THEN users @@ (u :> [UserService_create_Row(req[s].email, NoPassword)
                                              EXCEPT !.environmentId = req[s].key])
                       ELSE users
           /\ CreateToken(MagicLogin, u, ExpiresIn30m, req[s].key, TRUE)
           /\ emails' = emails (+) SetToBag({[template |-> "MagicLink", to |-> u,
                                              environmentId |-> req[s].key,
                                              token |-> NextToken, via |-> 0]})
           /\ Step(s, Return([req[s] EXCEPT !.user = u, !.newToken = NextToken,
                                            !.emailSent = TRUE], "OK", "empty"))
        \/ /\ UNCHANGED <<users, tokens, ledger, emails>>
           /\ Step(s, Throw(req[s], "Internal"))
  /\ UNCHANGED <<platform, sessions, environments, now, applied, started>>

\* ============================== EmailTemplateService.createDefaultTemplates
\* The types of emailTemplatesMapper, in the order of Object.entries.
emailTemplatesMapper == <<"MagicLink", "ConfirmEmail", "ForgotPassword", "Welcome">>

\* A row of the emailTemplate table; by is the call that created it (0 for a
\* row that was there before any call).
TemplateRow(type, environmentId, call) ==
  [type |-> type, environmentId |-> environmentId, by |-> call]

\* The function returns an error value from its catch: nothing is thrown.
createDefaultTemplates_Catch(r) == Return(r, "Internal", "errorValue")

\* await this.databaseService.emailTemplate.deleteMany({where: {environmentId}})
createDefaultTemplates_DeleteMany(environmentId) ==
  {t \in emailTemplates : t.environmentId # environmentId}

\* createDefaultTemplates(environmentId): the try is entered and deleteMany is
\* awaited; a rejection goes to the catch.
createDefaultTemplates_Start(s, environmentId) ==
  /\ CanStart(s)
  /\ LET r == [IdleReq EXCEPT !.op = "createDefaultTemplates", !.key = environmentId,
                              !.call = started + 1]
     IN \/ /\ emailTemplates' = createDefaultTemplates_DeleteMany(environmentId)
           /\ Begin(s, [r EXCEPT !.pc = "getDetailedById"])
        \/ /\ UNCHANGED emailTemplates
           /\ Begin(s, createDefaultTemplates_Catch(r))
  /\ UNCHANGED <<projects, TL_INTERNAL_API_KEY, sessions, environments, users, tokens,
                 ledger, now, emails, applied>>

\* const environment = await this.environmentService.getDetailedById(...);
\* getRootDomain(new URL(environment.appURL).hostname): a rejection, a missing
\* environment or a bad URL goes to the catch.
createDefaultTemplates_GetDetailedById(s) ==
  /\ req[s].op = "createDefaultTemplates" /\ req[s].pc = "getDetailedById"
  /\ \/ Step(s, [req[s] EXCEPT !.pc = "create"])
     \/ Step(s, createDefaultTemplates_Catch(req[s]))
  /\ UNCHANGED <<platform, sessions, environments, users, tokens, ledger, now, emails,
                 applied, started>>

\* One turn of the for loop: await this.databaseService.emailTemplate.create(
\* {data: {type, ..., environmentId}}); after the last type the function
\* returns undefined.
createDefaultTemplates_Create(s) ==
  /\ req[s].op = "createDefaultTemplates" /\ req[s].pc = "create"
  /\ \/ /\ emailTemplates' = emailTemplates \cup
             {TemplateRow(emailTemplatesMapper[req[s].created + 1], req[s].key, req[s].call)}
        /\ Step(s, IF req[s].created + 1 = Len(emailTemplatesMapper)
                   THEN Return([req[s] EXCEPT !.created = @ + 1], "OK", "undefined")
                   ELSE [req[s] EXCEPT !.created = @ + 1])
     \/ /\ UNCHANGED emailTemplates
        /\ Step(s, createDefaultTemplates_Catch(req[s]))
  /\ UNCHANGED <<projects, TL_INTERNAL_API_KEY, sessions, environments, users, tokens,
                 ledger, now, emails, applied, started>>

\* ----------------------------------------------------------------- time
Advance ==
  /\ now < MaxNow
  /\ now' = now + 1
  /\ UNCHANGED <<platform, sessions, environments, users, tokens, ledger, emails, applied, req, started>>

\* ------------------------------------------------------------ initial state
\* Two tenants: envA uses passwords, refreshes and allows sign-up; envB uses
\* magic links, has refresh disabled (lifetime null) and sign-up disabled.
InitEnvironments ==
  [e \in Envs |->
     IF e = "envA"
     THEN [authProvider |-> EmailAndPassword, refreshTokenExpiration |-> "7d",
           enableSignUp |-> TRUE]
     ELSE [authProvider |-> MagicLoginProvider, refreshTokenExpiration |-> "null",
           enableSignUp |-> FALSE]]

UserRow(email, environmentId, active, password) ==
  [email |-> email, environmentId |-> environmentId, active |-> active,
   emailConfirmed |-> FALSE, password |-> password, lastSignIn |-> FALSE,
   thonLabsUser |-> FALSE]

\* User 1 is active and user 2 inactive in envA; user 3 lives in envB under the
\* same email as user 1; c@x.com is nobody's email.
InitUsers ==
  (1 :> UserRow("a@x.com", "envA", TRUE, Hash("pw0")))
  @@ (2 :> UserRow("b@x.com", "envA", FALSE, Hash("pw0")))
  @@ (3 :> UserRow("a@x.com", "envB", TRUE, NoPassword))

\* A token issued before the behaviour starts: it expired before time 0
\* (expires -1), or it is live at time 0 and expired from time 1 on (expires 0).
PreExpiries == {-1, 0}

PreIssued(type, userId, expires) ==
  (1 :> [type |-> type, relationId |-> userId,
         environmentId |-> InitUsers[userId].environmentId, expires |-> expires])

EmptyStore == [t \in {} |-> 0]

ResetStores == {PreIssued(ResetPassword, u, e) : u \in {1, 2}, e \in PreExpiries}

ConfirmStores ==
  {PreIssued(ty, u, e) : ty \in {ConfirmEmail, InviteUser}, u \in {1, 3}, e \in PreExpiries}

MagicStores == {PreIssued(MagicLogin, u, e) : u \in {1, 3}, e \in PreExpiries}

InitWith(stores) ==
  /\ environments = InitEnvironments
  /\ users = InitUsers
  /\ tokens \in stores
  /\ ledger = [t \in DOMAIN tokens |-> [row |-> tokens[t], delivered |-> TRUE]]
  /\ now = 0
  /\ emails = EmptyBag
  /\ applied = [t \in TokenValues |-> 0]
  /\ sessions = {}
  /\ req = [s \in Slots |-> IdleReq]
  /\ started = 0
  /\ projects = <<>>
  /\ TL_INTERNAL_API_KEY = "secret"
  /\ emailTemplates = {}

\* ---------------------------------------------------------- specifications
ResetRequestNext ==
  \E s \in Slots :
    \/ \E key \in PublicKeys, email \in Emails : requestResetPassword_Start(s, key, email)
    \/ requestResetPassword_DeleteMany(s)
    \/ requestResetPassword_Create(s)
    \/ requestResetPassword_CreateFails(s)
    \/ requestResetPassword_Send(s)

AS_ResetRequestNext ==
  \E s \in Slots :
    \/ \E key \in PublicKeys, email \in Emails : AS_requestResetPassword_Start(s, key, email)
    \/ AS_requestResetPassword_DeleteMany(s)
    \/ AS_requestResetPassword_Create(s)
    \/ AS_requestResetPassword_CreateFails(s)
    \/ AS_requestResetPassword_Send(s)

ResetTokenNext ==
  \E s \in Slots :
    \/ \E key \in Envs, t \in TokenValues : validateTokenResetPassword_Start(s, key, t)
    \/ validateTokenResetPassword_IsActiveUser(s)
    \/ \E key \in PublicKeys, t \in TokenValues, p \in Passwords :
         updateTokenResetPassword_Start(s, key, t, p)
    \/ updateTokenResetPassword_Delete(s)
    \/ updateTokenResetPassword_UpdatePassword(s)

ConfirmNext ==
  \E s \in Slots :
    \/ \E key \in Envs, t \in TokenValues : confirmEmail_Start(s, key, t)
    \/ confirmEmail_ValidateInviteUser(s)
    \/ confirmEmail_SendConfirmationEmail(s)
    \/ confirmEmail_DeleteStale(s)
    \/ confirmEmail_UpdateEmailConfirmation(s)
    \/ confirmEmail_Delete(s)
    \/ confirmEmail_GetById(s)
    \/ confirmEmail_GenerateResetPasswordToken(s)
    \/ confirmEmail_GenerateMagicLoginToken(s)

MagicNext ==
  \E s \in Slots :
    \/ \E key \in Envs, t \in TokenValues : authenticateFromMagicLink_Start(s, key, t)
    \/ authenticateFromMagicLink_Consume(s)

RefreshNext ==
  \E s \in Slots :
    \/ \E e \in Envs, rt \in RefreshTokens : reAuthenticateFromRefreshToken_Start(s, e, rt)
    \/ reAuthenticateFromRefreshToken_Rotate(s)

AS_RefreshNext ==
  \E s \in Slots :
    \/ \E a \in BOOLEAN, e \in Envs, rt \in RefreshTokens :
         AS_reAuthenticateFromRefreshToken_Start(s, a, e, rt)
    \/ AS_reAuthenticateFromRefreshToken_Rotate(s)

SignUpNext ==
  \E s \in Slots :
    \/ \E key \in PublicKeys, email \in Emails, p \in Passwords \cup {NoPassword} :
         signUp_Start(s, key, email, p)
    \/ signUp_UserCreate(s)
    \/ signUp_TokenCreate(s)
    \/ signUp_CreateAuthTokens(s)
    \/ signUp_Send(s)

AS_SignUpNext ==
  \E s \in Slots :
    \/ \E key \in PublicKeys, email \in Emails, p \in Passwords \cup {NoPassword} :
         AS_signUp_Start(s, key, email, p)
    \/ AS_signUp_UserCreate(s)
    \/ AS_signUp_TokenCreate(s)
    \/ AS_signUp_Send(s)

SignUpOwnerNext ==
  \E s \in Slots :
    \/ \E k \in StaffApiKeys, p \in OwnerPasswords : signUpOwner_Start(s, k, p)
    \/ signUpOwner_OwnerCreate(s)
    \/ signUpOwner_ProjectCreate(s)
    \/ signUpOwner_Settle(s)

AS_ConfirmNext ==
  \E s \in Slots :
    \/ \E key \in PublicKeys, t \in TokenValues : AS_confirmEmail_Start(s, key, t)
    \/ AS_confirmEmail_UpdateEmailConfirmation(s)

\* The token consumers of part_000, concurrent, over a store that holds one
\* token of any kind: confirm-email, the reset-password GET and PATCH, magic.
Init == InitWith(ResetStores \cup ConfirmStores \cup MagicStores)
Next == ConfirmNext \/ ResetTokenNext \/ MagicNext \/ Advance
Spec == Init /\ [][Next]_vars

\* The reset-password flows of part_000, concurrent.
ResetInit == InitWith({EmptyStore} \cup ResetStores)
ResetFlowNext == ResetRequestNext \/ ResetTokenNext \/ Advance
SpecReset == ResetInit /\ [][ResetFlowNext]_vars

\* The reset-password request of the auth-services controller.
AS_ResetFlowNext == AS_ResetRequestNext \/ Advance
SpecASReset == ResetInit /\ [][AS_ResetFlowNext]_vars

\* The confirm-email flow of part_000, concurrent.
ConfirmInit == InitWith(ConfirmStores)
ConfirmFlowNext == ConfirmNext \/ Advance
SpecConfirm == ConfirmInit /\ [][ConfirmFlowNext]_vars

\* The confirm-email flow of the auth-services controller.
AS_ConfirmFlowNext == AS_ConfirmNext \/ Advance
SpecASConfirm == ConfirmInit /\ [][AS_ConfirmFlowNext]_vars

\* Refresh, in each controller.
RefreshInit == InitWith({EmptyStore})
SpecRefresh == RefreshInit /\ [][RefreshNext]_vars
SpecASRefresh == RefreshInit /\ [][AS_RefreshNext]_vars

\* Sign-up of part_000 with UserService.create, concurrent.
SignUpInit == InitWith({EmptyStore})
SpecSignUp == SignUpInit /\ [][SignUpNext]_vars

\* Sign-up of the auth-services controller.
SpecASSignUp == SignUpInit /\ [][AS_SignUpNext]_vars

\* signup/owner of part_000, concurrent; the shared secret is configured.
OwnerInit ==
  /\ environments = InitEnvironments
  /\ users = InitUsers
  /\ tokens = EmptyStore
  /\ ledger = EmptyStore
  /\ now = 0
  /\ emails = EmptyBag
  /\ applied = [t \in TokenValues |-> 0]
  /\ sessions = {}
  /\ req = [s \in Slots |-> IdleReq]
  /\ started = 0
  /\ projects = <<>>
  /\ TL_INTERNAL_API_KEY \in ConfiguredApiKeys
  /\ emailTemplates = {}
SpecOwner == OwnerInit /\ [][SignUpOwnerNext]_vars

\* Sign-up of part_000 followed by the magic link, concurrent.
SignUpMagicNext == SignUpNext \/ MagicNext \/ Advance
SpecSignUpMagic == SignUpInit /\ [][SignUpMagicNext]_vars

\* A value of environment.authProvider that is neither of the two the
\* controller compares with.
OtherAuthProvider == "Other"

\* The confirm-email flow of part_000 over invited and returning users: each
\* of users 1 and 3 has signed in before or never, and envB uses magic links
\* or another provider.
InviteInit ==
  /\ environments \in {[InitEnvironments EXCEPT !["envB"].authProvider = p] :
                         p \in {MagicLoginProvider, OtherAuthProvider}}
  /\ users \in {[InitUsers EXCEPT ![1].lastSignIn = a, ![3].lastSignIn = b] :
                  a, b \in BOOLEAN}
  /\ tokens \in ConfirmStores
  /\ ledger = [t \in DOMAIN tokens |-> [row |-> tokens[t], delivered |-> TRUE]]
  /\ now = 0
  /\ emails = EmptyBag
  /\ applied = [t \in TokenValues |-> 0]
  /\ sessions = {}
  /\ req = [s \in Slots |-> IdleReq]
  /\ started = 0
  /\ projects = <<>>
  /\ TL_INTERNAL_API_KEY = "secret"
  /\ emailTemplates = {}
SpecInvite == InviteInit /\ [][ConfirmFlowNext]_vars

\* Login: user 3 of envB has a password or none (a tenant may change its
\* provider through updateAuthSettings), and envB uses magic links or another
\* provider.
LoginInit ==
  /\ environments \in {[InitEnvironments EXCEPT !["envB"].authProvider = p] :
                         p \in {MagicLoginProvider, OtherAuthProvider}}
  /\ \E hasPassword \in BOOLEAN :
       users = [InitUsers EXCEPT ![3].password =
                  IF hasPassword THEN Hash("pw0") ELSE NoPassword]
  /\ tokens = EmptyStore
  /\ ledger = EmptyStore
  /\ now = 0
  /\ emails = EmptyBag
  /\ applied = [t \in TokenValues |-> 0]
  /\ sessions = {}
  /\ req = [s \in Slots |-> IdleReq]
  /\ started = 0
  /\ projects = <<>>
  /\ TL_INTERNAL_API_KEY = "secret"
  /\ emailTemplates = {}

LoginNext ==
  \E s \in Slots :
    \/ \E key \in PublicKeys, email \in Emails, p \in LoginPasswords :
         login_Start(s, key, email, p)
    \/ login_AuthenticateFromEmailAndPassword(s)
    \/ login_SendMagicLink(s)

AS_LoginNext ==
  \E s \in Slots :
    \/ \E key \in PublicKeys, email \in Emails, p \in LoginPasswords :
         AS_login_Start(s, key, email, p)
    \/ login_AuthenticateFromEmailAndPassword(s)
    \/ AS_login_LoginOrCreateFromMagicLink(s)

\* Login of part_000, concurrent.
SpecLogin == LoginInit /\ [][LoginNext]_vars

\* Login of the auth-services controller.
SpecASLogin == LoginInit /\ [][AS_LoginNext]_vars

\* createDefaultTemplates, concurrent calls: the table holds any of a few rows
\* made before (a default of envA, a second row of that type, a row of envB).
TemplatesBefore ==
  {TemplateRow("MagicLink", "envA", 0), TemplateRow("MagicLink", "envA", -1),
   TemplateRow("Welcome", "envB", 0)}

TemplatesInit ==
  /\ environments = InitEnvironments
  /\ users = InitUsers
  /\ tokens = EmptyStore
  /\ ledger = EmptyStore
  /\ now = 0
  /\ emails = EmptyBag
  /\ applied = [t \in TokenValues |-> 0]
  /\ sessions = {}
  /\ req = [s \in Slots |-> IdleReq]
  /\ started = 0
  /\ projects = <<>>
  /\ TL_INTERNAL_API_KEY = "secret"
  /\ emailTemplates \in SUBSET TemplatesBefore

TemplatesNext ==
  \E s \in Slots :
    \/ \E e \in Envs : createDefaultTemplates_Start(s, e)
    \/ createDefaultTemplates_GetDetailedById(s)
    \/ createDefaultTemplates_Create(s)

SpecTemplates == TemplatesInit /\ [][TemplatesNext]_vars

\* The same with one call at a time: a call starts when none is in progress.
TemplatesSeqNext ==
  TemplatesNext /\ ((\E s \in Slots : InProgress(s)) => \E s \in Slots : InProgress(s) /\ req'[s] # req[s])

SpecTemplatesSeq == TemplatesInit /\ [][TemplatesSeqNext]_vars

\* ================================================================== claims
TokenConsumers ==
  {"validateTokenResetPassword", "updateTokenResetPassword", "confirmEmail",
   "authenticateFromMagicLink"}

\* A request that presents its token to a validation (it was not refused for
\* its public key before).
Presents(s) == req[s].op \in TokenConsumers /\ req[s].key # NoEnv

\* ---------------------------------------------------------------------- C1
\* A request that presents a token value which was deleted before the request
\* arrived gets NotFound from every validation it makes and ends NotFound.
C1_StaleIsNotFound ==
  \A s \in Slots :
    (Presents(s) /\ req[s].stale) =>
      /\ req[s].tv.statusCode = "NotFound"
      /\ req[s].pc \in {"validateInviteUser", "done"}
      /\ (req[s].pc = "done" => req[s].status = "NotFound")

\* A deleted token value never comes back into the store.
C1_NeverRestored == \A t \in TokenValues : Stale(t) => Stale(t)'

\* C1: single use. Once a token value has been deleted from the store it stays
\* deleted, and every later request presenting it (confirm-email, reset-password
\* GET or PATCH, magic link) has all its validations return NotFound and fails
\* with NotFound.
C1_SingleUse == [](C1_StaleIsNotFound) /\ [][C1_NeverRestored]_vars

\* A token was consumed and a later request presenting it has ended NotFound.
C1_Witness ==
  \E s \in Slots :
    /\ Presents(s) /\ req[s].stale /\ req[s].pc = "done"
    /\ req[s].status = "NotFound"
    /\ applied[req[s].token] > 0


\* A reset token of the user that validation accepts at this moment.
ValidResetTokens(u, tks, t0) ==
  {t \in DOMAIN tks : /\ tks[t].type = ResetPassword
                      /\ tks[t].relationId = u
                      /\ t0 <= tks[t].expires}

\* The step on which slot s completes a reset request that issued a token.
ResetRequestCompletes(s) ==
  /\ req[s].op = "requestResetPassword" /\ req[s].pc = "send"
  /\ req'[s].pc = "done" /\ req'[s].status = "Created"

C2_OldTokensGone ==
  \A s \in Slots :
    ResetRequestCompletes(s) =>
      \A t \in 1..req[s].pre :
        (ledger[t].row.type = ResetPassword /\ ledger[t].row.relationId = req[s].user)
          => t \notin DOMAIN tokens'

C2_OnlyNewValidates ==
  \A s \in Slots :
    ResetRequestCompletes(s) =>
      ValidResetTokens(req[s].user, tokens', now') = {req[s].newToken}

\* C2: when requestResetPassword completes for an existing, active user, every
\* reset token issued to that user before the request is gone from the store,
\* and the token the request issued is the only reset token of the user that
\* validates.
C2_RequestInvalidatesPrior == [][C2_OldTokensGone /\ C2_OnlyNewValidates]_vars

\* The half of C2 that the code keeps under every interleaving.
C2_PriorTokensAreGone == [][C2_OldTokensGone]_vars

NoResetRequestInProgress ==
  \A s \in Slots : ~(req[s].op = "requestResetPassword" /\ InProgress(s))

\* C3: whenever no requestResetPassword is in progress, each user has at most
\* one stored, unexpired reset-password token, concurrent requests included.
C3_AtMostOneLiveResetToken ==
  NoResetRequestInProgress =>
    \A u \in DOMAIN users : Cardinality(ValidResetTokens(u, tokens, now)) <= 1

DependentMutationTypes == {ResetPassword, ConfirmEmail, InviteUser}

\* C4: the password change or email confirmation that a token authorises is
\* applied at most once per token, also when the token is submitted twice
\* concurrently.
C4_MutationAppliedAtMostOnce ==
  \A t \in DOMAIN ledger :
    ledger[t].row.type \in DependentMutationTypes => applied[t] <= 1

\* The confirmation emails re-sent because token t was presented expired.
Resends(t) ==
  BagCardinality(Restrict(emails, {e \in BagToSet(emails) : e.via = t}))

\* C5: an expired confirm-email token whose user resolves causes one re-send
\* over all its presentations: the presentation that re-sends reports
\* NotAcceptable with emailResent, and a presentation arriving after the
\* token was deleted gets NotFound and sends nothing.
C5_ExactlyOneResend ==
  \A t \in DOMAIN ledger :
    ledger[t].row.type = ConfirmEmail =>
      /\ Resends(t) <= 1
      /\ \A s \in Slots :
           (req[s].op = "confirmEmail" /\ req[s].token = t /\ req[s].pc = "done") =>
             /\ req[s].emailSent =>
                  /\ req[s].status = "NotAcceptable"
                  /\ req[s].body = "emailResent"
                  /\ Resends(t) = 1
             /\ req[s].stale => req[s].status = "NotFound" /\ ~req[s].emailSent


\* The confirm-email retry: the one path on which an expired token is deleted.
ConfirmRetry(s) == req[s].op = "confirmEmail" /\ req[s].tv.type = ConfirmEmail

C6_ExpiredIsRefused ==
  \A s \in Slots :
    (Presents(s) /\ req[s].tv.statusCode = "Expired") =>
      IF ConfirmRetry(s)
      THEN req[s].pc = "done" => req[s].status \in {"Expired", "NotAcceptable"}
      ELSE req[s].pc = "done" /\ req[s].status = "Expired"

C6_ExpiredIsKept ==
  \A s \in Slots :
    (req'[s] # req[s] /\ req'[s].tv.statusCode = "Expired") =>
      /\ users' = users
      /\ applied' = applied
      /\ IF ConfirmRetry(s)
         THEN DOMAIN tokens \ DOMAIN tokens' \subseteq {req[s].token}
         ELSE tokens' = tokens

\* C6: a request whose token validation returns Expired ends with Expired and
\* changes neither the token store nor the user (GET and PATCH reset-password,
\* an expired invite in confirmEmail, an expired magic link); only the
\* confirm-email retry removes a token, and it removes the presented one.
C6_ExpiredNotDeleted == [](C6_ExpiredIsRefused) /\ [][C6_ExpiredIsKept]_vars

C6_Witness ==
  \E s \in Slots :
    /\ req[s].op = "updateTokenResetPassword" /\ req[s].pc = "done"
    /\ req[s].status = "Expired"
    /\ req[s].token \in DOMAIN tokens
    /\ now > tokens[req[s].token].expires

C6_WitnessRetry ==
  \E s \in Slots :
    /\ ConfirmRetry(s) /\ req[s].pc = "done" /\ req[s].tv.statusCode = "Expired"
    /\ Stale(req[s].token)

ResetRequestOps == {"requestResetPassword", "AS_requestResetPassword"}

\* C7: requestResetPassword answers a registered and an unregistered email
\* alike: whenever token storage did not fail, the request ends with the same
\* success status and empty body whether or not the email matches a user.
C7_SameAcknowledgement ==
  \A s \in Slots :
    (/\ req[s].op \in ResetRequestOps /\ req[s].pc = "done"
     /\ req[s].key # NoEnv /\ req[s].status # "Internal") =>
      req[s].status = "Created" /\ req[s].body = "empty"

\* The validation of slot s returned a token issued for another tenant than
\* the one the request's public key resolves to.
CrossTenant(r) ==
  /\ r.op \in {"validateTokenResetPassword", "updateTokenResetPassword", "confirmEmail"}
  /\ r.tv.environmentId \notin {NoEnv, r.key}

C8_CrossTenantIsRefused ==
  \A s \in Slots :
    (CrossTenant(req[s]) /\ req[s].pc = "done") => req[s].body = "error"

C8_CrossTenantChangesNothing ==
  \A s \in Slots :
    (req'[s] # req[s] /\ CrossTenant(req'[s])) =>
      /\ tokens' = tokens
      /\ users' = users

\* C8: a token issued for one tenant and presented with another tenant's key
\* makes the request fail, and the request neither deletes the token nor
\* changes the user.
C8_CrossTenantFailsClosed ==
  [](C8_CrossTenantIsRefused) /\ [][C8_CrossTenantChangesNothing]_vars

RefreshOps == {"reAuthenticateFromRefreshToken", "AS_reAuthenticateFromRefreshToken"}

\* C9: a refresh request on a tenant whose refresh lifetime is null never
\* reaches the rotation and ends Unauthorized, whatever token it presents.
C9_DisabledRefreshIsUnauthorized ==
  \A s \in Slots :
    (req[s].op \in RefreshOps /\ RefreshDisabled(req[s].key)) =>
      /\ ~req[s].rotated
      /\ req[s].pc = "done" => req[s].status = "Unauthorized"

\* The step on which slot s completes a signup that carried a password.
PasswordSignUpCompletes(s) ==
  /\ req[s].op = "signUp" /\ req[s].password # NoPassword
  /\ req[s].pc # "done" /\ req'[s].pc = "done" /\ req'[s].status = "Created"

TokensOf(u, type, tks) == {t \in DOMAIN tks : tks[t].relationId = u /\ tks[t].type = type}

C10_AtCompletion ==
  \A s \in Slots :
    PasswordSignUpCompletes(s) =>
      LET u == req[s].user
      IN /\ req'[s].body = "session"
         /\ SessionFor(u, req[s].key) \in sessions'
         /\ TokensOf(u, ConfirmEmail, tokens') = {req[s].newToken}
         /\ tokens'[req[s].newToken].environmentId = req[s].key
         /\ TokensOf(u, MagicLogin, tokens') = {}
         /\ ~users'[u].emailConfirmed

\* C10: when a signup with a password succeeds, the response carries session
\* credentials, the store holds exactly one confirm-email token of the new
\* user, scoped to the tenant, and no magic-login token of that user, and the
\* user's email is not yet confirmed.
C10_PasswordSignUp == [][C10_AtCompletion]_vars

C10_Witness ==
  \E s \in Slots :
    /\ req[s].op = "signUp" /\ req[s].password # NoPassword
    /\ req[s].pc = "done" /\ req[s].status = "Created" /\ req[s].body = "session"
    /\ req[s].newToken \in DOMAIN tokens
    /\ tokens[req[s].newToken].type = ConfirmEmail


SessionsOf(u, ss) == {x \in ss : x.user = u}

\* The step on which slot s completes a signup that carried no password.
PasswordlessSignUpCompletes(s) ==
  /\ req[s].op = "signUp" /\ req[s].password = NoPassword
  /\ req[s].pc # "done" /\ req'[s].pc = "done" /\ req'[s].status = "Created"

C11_AtSignUp ==
  \A s \in Slots :
    PasswordlessSignUpCompletes(s) =>
      /\ req'[s].body = "empty"
      /\ TokensOf(req[s].user, MagicLogin, tokens') = {req[s].newToken}
      /\ SessionsOf(req[s].user, sessions') = {}

\* The step on which slot s ends a magic-link request whose token validated.
MagicLinkCompletes(s) ==
  /\ req[s].op = "authenticateFromMagicLink" /\ req[s].pc = "consume"
  /\ req'[s].pc = "done"

C11_AtMagicLink ==
  \A s \in Slots :
    MagicLinkCompletes(s) =>
      /\ req'[s].status = "OK" /\ req'[s].body = "session"
      /\ req'[s].user = ledger[req[s].token].row.relationId
      /\ SessionsOf(req'[s].user, sessions') # {}

\* A user created by a signup without a password.
PasswordlessNewUsers ==
  {u \in DOMAIN users \ DOMAIN InitUsers : users[u].password = NoPassword}

C11_NoSessionBefore ==
  \A u \in PasswordlessNewUsers :
    SessionsOf(u, sessions) # {} =>
      \E t \in DOMAIN ledger :
        /\ ledger[t].row.type = MagicLogin /\ ledger[t].row.relationId = u
        /\ applied[t] > 0

\* C11: a signup without a password that succeeds answers with an empty
\* acknowledgement and leaves one stored magic-login token of the new user;
\* the user has no session until a magic-login token of theirs was consumed at
\* the magic-link endpoint, and a magic-link request whose token validates
\* ends with session credentials of the token's user.
C11_PasswordlessSignUp ==
  [](C11_NoSessionBefore) /\ [][C11_AtSignUp /\ C11_AtMagicLink]_vars

C11_Witness ==
  \E s \in Slots :
    /\ req[s].op = "authenticateFromMagicLink" /\ req[s].pc = "done"
    /\ req[s].status = "OK"
    /\ req[s].user \in PasswordlessNewUsers
    /\ SessionsOf(req[s].user, sessions) # {}


\* The step on which slot s ends, with success, the confirmation of a valid
\* invite-user token of a user who never signed in.
InviteConfirmationCompletes(s) ==
  /\ req[s].op = "confirmEmail" /\ req[s].pc # "done"
  /\ req[s].tv.statusCode = "" /\ req[s].tv.type = InviteUser
  /\ ~users[req[s].tv.relationId].lastSignIn
  /\ req'[s].pc = "done" /\ req'[s].status = "OK"

FollowUpType(environmentId) ==
  IF environments[environmentId].authProvider = EmailAndPassword
  THEN ResetPassword ELSE MagicLogin

C12_AtCompletion ==
  \A s \in Slots :
    InviteConfirmationCompletes(s) =>
      LET u == req[s].tv.relationId
          t == req'[s].newToken
      IN /\ req'[s].body = FollowUpType(req[s].tv.environmentId)
         /\ t \in DOMAIN tokens'
         /\ tokens'[t].type = req'[s].body
         /\ tokens'[t].relationId = u
         /\ req'[s].body = ResetPassword => req'[s].email = users[u].email
         /\ users'[u].emailConfirmed
         /\ req[s].token \notin DOMAIN tokens'

\* C12: when the confirmation of a valid invite-user token of a user who never
\* signed in succeeds, the response carries a follow-up token stored for that
\* user (reset-password with the user's email on a password tenant,
\* magic-login on a magic-link tenant), the user is email-confirmed and the
\* invite-user token is no longer stored.
C12_InviteFollowUp == [][C12_AtCompletion]_vars

C12_Witness ==
  \E s \in Slots :
    /\ req[s].op = "confirmEmail" /\ req[s].pc = "done" /\ req[s].status = "OK"
    /\ req[s].tv.type = InviteUser /\ req[s].body = ResetPassword
    /\ req[s].newToken \in DOMAIN tokens
    /\ users[req[s].user].emailConfirmed

C12_WitnessMagic ==
  \E s \in Slots :
    /\ req[s].op = "confirmEmail" /\ req[s].pc = "done" /\ req[s].status = "OK"
    /\ req[s].tv.type = InviteUser /\ req[s].body = MagicLogin
    /\ req[s].newToken \in DOMAIN tokens


\* The tenant a user is registered in: the environment of the user's row, or,
\* for a row written without one, the tenant of the first token issued to the
\* user (the token of the signup that created the row).
TenantOf(u) ==
  LET issued == {t \in DOMAIN ledger : ledger[t].row.relationId = u}
  IN IF users[u].environmentId # NoEnv THEN users[u].environmentId
     ELSE IF issued = {} THEN NoEnv
     ELSE ledger[CHOOSE t \in issued : \A t2 \in issued : t <= t2].row.environmentId

C13_UniqueEmailPerTenant ==
  \A u, v \in DOMAIN users :
    (u # v /\ TenantOf(u) # NoEnv /\ TenantOf(u) = TenantOf(v)) =>
      users[u].email # users[v].email

C13_ConflictChangesNothing ==
  \A s \in Slots :
    (req'[s] # req[s] /\ req'[s].op = "signUp" /\ req'[s].status = "Conflict") =>
      /\ users' = users
      /\ tokens' = tokens
      /\ emails' = emails

\* C13: no two users of one tenant have the same email, whatever signups were
\* made, and a signup refused with Conflict creates no user, stores no token
\* and sends no email.
C13_NoDuplicateEmail ==
  [](C13_UniqueEmailPerTenant) /\ [][C13_ConflictChangesNothing]_vars


SignUpOps == {"signUp", "AS_signUp"}

\* A signup on a tenant whose sign-up is disabled.
SignUpDisabled(r) ==
  /\ r.op \in SignUpOps /\ r.key # NoEnv
  /\ ~environments[r.key].enableSignUp

C14_DisabledIsForbidden ==
  \A s \in Slots :
    SignUpDisabled(req[s]) => req[s].pc = "done" /\ req[s].status = "Forbidden"

C14_DisabledChangesNothing ==
  \A s \in Slots :
    (req'[s] # req[s] /\ SignUpDisabled(req'[s])) =>
      /\ users' = users
      /\ tokens' = tokens
      /\ emails' = emails
      /\ sessions' = sessions

\* C14: a signup on a tenant whose sign-up is disabled ends Forbidden and
\* creates no user, stores no token, triggers no email and issues no session.
C14_DisabledSignUp ==
  [](C14_DisabledIsForbidden) /\ [][C14_DisabledChangesNothing]_vars


\* The step on which the reset-password PATCH of slot s, having passed token
\* validation, answers.
PatchAnswers(s) ==
  /\ req[s].op = "updateTokenResetPassword" /\ req[s].pc = "promiseAll"
  /\ req'[s].status # ""

C15_AtAnswer ==
  \A s \in Slots :
    PatchAnswers(s) =>
      /\ req[s].token \notin DOMAIN tokens'
      /\ req'[s].updStatus # "" => req'[s].body = "error"

\* C15: whenever the reset-password PATCH has passed token validation, the
\* token is out of the store when the handler answers, also when the password
\* update returned an error or threw, and the failure is reported.
C15_FailForward == [][C15_AtAnswer]_vars

\* The part of C15 the code keeps: when updatePassword returns (a value or an
\* error value) the token is out of the store when the handler answers, and
\* a token whose handler has finished all its work is out of the store.
C15_ReturnedErrorDeletes ==
  \A s \in Slots :
    (req[s].op = "updateTokenResetPassword" /\ req[s].tv.type = ResetPassword
     /\ req[s].tv.statusCode = "" /\ req[s].pc = "done") =>
      req[s].token \notin DOMAIN tokens


\* The step on which the handler of slot s completes its delete of the token
\* it was given.
DeleteStep(s) ==
  \/ /\ req[s].op = "confirmEmail" /\ req[s].pc \in {"delete", "deleteStale"}
     /\ req'[s].pc # req[s].pc
  \/ /\ req[s].op = "updateTokenResetPassword"
     /\ ~req[s].delDone /\ req'[s].delDone

C16_AbsentDelete ==
  \A s \in Slots :
    (DeleteStep(s) /\ req[s].token \notin DOMAIN tokens) =>
      /\ tokens' = tokens
      /\ req'[s].body = "error" =>
           \/ req[s].updStatus # "" /\ req'[s].status = req[s].updStatus
           \/ req[s].tv.statusCode # "" /\ req'[s].status = req[s].tv.statusCode

Owners == {u \in DOMAIN users : users[u].thonLabsUser}

C17_OneOwner == Cardinality(Owners) <= 1

\* The step on which slot s starts a signup/owner call that passes the guard
\* while an owner exists.
OwnerCallFindsOwner(s) ==
  /\ req[s].op # "signUpOwner" \/ req[s].pc \in {"idle", "done"}
  /\ req'[s].op = "signUpOwner" /\ req'[s].pc \notin {"idle", "done"}
  /\ Owners # {}

C17_ExistingOwnerIsReturned ==
  \A s \in Slots :
    OwnerCallFindsOwner(s) =>
      /\ req'[s].user \in Owners
      /\ req'[s].pc = "projectCreate"
      /\ users' = users

C17_ExistingOwner == [][C17_ExistingOwnerIsReturned]_vars

\* A signup/owner call whose header differs from the configured value or is
\* missing.
BadStaffApiKey(r) ==
  /\ r.op = "signUpOwner"
  /\ r.apiKey # TL_INTERNAL_API_KEY \/ r.apiKey = Undefined

C18_BadKeyIsUnauthorized ==
  \A s \in Slots :
    BadStaffApiKey(req[s]) => req[s].pc = "done" /\ req[s].status = "Unauthorized"

C18_BadKeyChangesNothing ==
  \A s \in Slots :
    (req'[s] # req[s] /\ BadStaffApiKey(req'[s])) =>
      /\ users' = users
      /\ projects' = projects
      /\ environments' = environments

MutatingOps == {"confirmEmail", "AS_confirmEmail", "updateTokenResetPassword"}

\* A handler that was given token t has work left.
HandlerInProgress(t) ==
  \E s \in Slots : req[s].op \in MutatingOps /\ req[s].token = t /\ InProgress(s)

\* C19: no replay after effect: whenever the mutation a token authorises has
\* been applied and no confirmEmail or reset-password PATCH handler of that
\* token is in progress, the token is not in the store.
C19_NoReplayAfterEffect ==
  \A t \in DOMAIN ledger :
    (/\ ledger[t].row.type \in DependentMutationTypes
     /\ applied[t] > 0
     /\ ~HandlerInProgress(t)) => t \notin DOMAIN tokens


C20_ReadOnly ==
  \A s \in Slots :
    (req'[s] # req[s] /\ req'[s].op = "validateTokenResetPassword") =>
      /\ tokens' = tokens
      /\ users' = users

\* The step on which the reset-password GET of slot s ends.
GetEnds(s) ==
  /\ req'[s] # req[s]
  /\ req'[s].op = "validateTokenResetPassword" /\ req'[s].pc = "done"

C20_Outcome ==
  \A s \in Slots :
    GetEnds(s) =>
      LET r == req'[s]
          validated == r.tv.statusCode = "" /\ r.tv.type = ResetPassword
          active == users[r.tv.relationId].active
      IN /\ r.status \in {"OK", "NotAcceptable"} => validated
         /\ validated => r.status = (IF active THEN "OK" ELSE "NotAcceptable")
         \* a token that is absent, of another type or expired when the GET
         \* starts never validates
         /\ req[s].pc # "isActiveUser" =>
              (validated <=> /\ r.token \in DOMAIN tokens
                             /\ tokens[r.token].type = ResetPassword
                             /\ now <= tokens[r.token].expires)

\* C20: the reset-password GET changes neither the token store nor any user;
\* it ends OK only for a token that validated as reset-password and whose user
\* is active, NotAcceptable when that user is inactive, and with the
\* validation's failure for a token that is not a live reset-password token.
C20_GetIsReadOnly == [][C20_ReadOnly /\ C20_Outcome]_vars

C20_Witness ==
  \E s1, s2 \in Slots :
    /\ req[s1].op = "validateTokenResetPassword" /\ req[s1].pc = "done"
    /\ req[s1].status = "OK"
    /\ req[s2].op = "updateTokenResetPassword" /\ req[s2].token = req[s1].token
    /\ req[s2].tv.statusCode = "" /\ req[s2].tv.type = ResetPassword

C20_WitnessInactive ==
  \E s \in Slots :
    /\ req[s].op = "validateTokenResetPassword" /\ req[s].pc = "done"
    /\ req[s].status = "NotAcceptable"
    /\ req[s].token \in DOMAIN tokens

\* ---------------------------------------------------------------- C21
\* The request of slot s names an email that has no user in the tenant of its
\* key, or whose user there is inactive.
UnknownOrInactive(r) ==
  /\ r.op = "requestResetPassword" /\ r.key # NoEnv
  /\ LET u == GetByEmail(r.email, r.key) IN u = 0 \/ ~users[u].active

\* C21: a reset-password request for an email with no user in the tenant, or
\* with an inactive user, ends on its first step with the acknowledgement and
\* changes nothing: no token is created or deleted and no email is sent.
C21_SilentRequestChangesNothing ==
  [][\A s \in Slots :
       (req'[s] # req[s] /\ UnknownOrInactive(req'[s])) =>
         /\ req'[s].pc = "done" /\ req'[s].status = "Created" /\ req'[s].body = "empty"
         /\ tokens' = tokens /\ ledger' = ledger /\ emails' = emails
         /\ users' = users]_vars

\* A request for the inactive user 2 was acknowledged while a reset-password
\* token of that user stayed in the store.
C21_Witness ==
  \E s \in Slots :
    /\ UnknownOrInactive(req[s]) /\ req[s].pc = "done" /\ req[s].user = 2
    /\ \E t \in DOMAIN tokens : tokens[t].relationId = 2 /\ tokens[t].type = ResetPassword

\* The same for an email that is nobody's.
C21_WitnessUnknown ==
  \E s \in Slots :
    /\ UnknownOrInactive(req[s]) /\ req[s].pc = "done" /\ req[s].user = 0
    /\ tokens # EmptyStore

\* ---------------------------------------------------------------- C22
\* The kinds of token a flow does not accept.
OtherKinds(op) ==
  IF op = "confirmEmail" THEN {ResetPassword, MagicLogin}
  ELSE {ConfirmEmail, InviteUser, MagicLogin}

\* The request presents, with a tenant key, a stored token of a kind its flow
\* does not accept.
WrongKind(r) ==
  /\ r.op \in {"confirmEmail", "validateTokenResetPassword", "updateTokenResetPassword"}
  /\ r.key # NoEnv
  /\ r.token \in DOMAIN tokens
  /\ tokens[r.token].type \in OtherKinds(r.op)

\* C22: a token of another kind presented to confirmEmail or to the
\* reset-password GET or PATCH is answered NotFound; no step of that request
\* deletes it, sends an email, opens a session or changes a user.
C22_WrongKindIsAbsent ==
  [][\A s \in Slots :
       (req'[s] # req[s] /\ WrongKind(req'[s])) =>
         /\ req'[s].pc \in {"validateInviteUser", "done"}
         /\ req'[s].pc = "validateInviteUser" => req'[s].op = "confirmEmail"
         /\ req'[s].pc = "done" => req'[s].status = "NotFound" /\ req'[s].body = "error"
         /\ tokens' = tokens /\ ledger' = ledger /\ emails' = emails
         /\ users' = users /\ sessions' = sessions /\ applied' = applied]_vars

\* Both slots were answered NotFound for the same token, unexpired and still
\* stored: confirmEmail and the PATCH for a magic-login token.
C22_Witness ==
  \E s1, s2 \in Slots :
    /\ WrongKind(req[s1]) /\ req[s1].op = "confirmEmail" /\ req[s1].pc = "done"
    /\ WrongKind(req[s2]) /\ req[s2].op = "updateTokenResetPassword" /\ req[s2].pc = "done"
    /\ req[s1].token = req[s2].token
    /\ now <= tokens[req[s1].token].expires
    /\ req[s1].status = "NotFound" /\ req[s2].status = "NotFound"

\* The GET answered NotFound for a live confirm-email or invite-user token.
C22_WitnessGet ==
  \E s \in Slots :
    /\ WrongKind(req[s]) /\ req[s].op = "validateTokenResetPassword" /\ req[s].pc = "done"
    /\ tokens[req[s].token].type \in {ConfirmEmail, InviteUser}
    /\ now <= tokens[req[s].token].expires
    /\ req[s].status = "NotFound"

\* ---------------------------------------------------------------- C23
\* Token t is stored, unexpired and of the given kind.
LiveOfKind(t, type) ==
  /\ t \in DOMAIN tokens
  /\ tokens[t].type = type
  /\ now <= tokens[t].expires

\* A step of the confirmEmail request of slot s.
ConfirmStep(s) == req'[s] # req[s] /\ req'[s].op = "confirmEmail"

\* The first validation accepts a live confirm-email token; the second one is
\* made only after a NotFound and accepts a live invite-user token.
C23_Accepts ==
  \A s \in Slots :
    ConfirmStep(s) =>
      /\ (req[s].pc \in {"idle", "done"} /\ LiveOfKind(req'[s].token, ConfirmEmail)) =>
           /\ req'[s].pc = "updateEmailConfirmation"
           /\ req'[s].tv.statusCode = "" /\ req'[s].tv.type = ConfirmEmail
      /\ req'[s].pc = "validateInviteUser" => req'[s].tv.statusCode = "NotFound"
      /\ (req[s].pc = "validateInviteUser" /\ LiveOfKind(req'[s].token, InviteUser)) =>
           /\ req'[s].pc = "updateEmailConfirmation"
           /\ req'[s].tv.statusCode = "" /\ req'[s].tv.type = InviteUser
      /\ req'[s].pc = "updateEmailConfirmation" => req'[s].tv.type \in {ConfirmEmail, InviteUser}

\* The request of slot s validated an invite-user token of a user who never
\* signed in.
NeedsFollowUp(r) ==
  /\ r.tv.statusCode = "" /\ r.tv.type = InviteUser
  /\ ~users[r.tv.relationId].lastSignIn

C23_FollowUpIff ==
  \A s \in Slots :
    ConfirmStep(s) =>
      /\ (req'[s].pc = "done" /\ req'[s].status = "OK") =>
           /\ req'[s].tv.statusCode = ""
           /\ IF NeedsFollowUp(req'[s])
              THEN /\ req'[s].body \in {ResetPassword, MagicLogin}
                   /\ req'[s].newToken \in DOMAIN tokens' \ DOMAIN ledger
                   /\ tokens'[req'[s].newToken].type = req'[s].body
              ELSE /\ req'[s].body = "empty"
                   /\ req'[s].newToken = 0
      /\ (req'[s].tv.statusCode = "" /\ ~NeedsFollowUp(req'[s])) => ledger' = ledger

\* C23: confirmEmail accepts a live confirm-email token on its first
\* validation and a live invite-user token on the second, which it makes only
\* after a NotFound; a successful confirmation returns a follow-up token,
\* newly stored, exactly when the token is invite-user and the user never
\* signed in, and otherwise returns the empty acknowledgement and stores no
\* token.
C23_ConfirmAcceptsBothKinds == [][C23_Accepts /\ C23_FollowUpIff]_vars

\* An invite-user token of a user who signed in before was confirmed with the
\* empty acknowledgement.
C23_Witness ==
  \E s \in Slots :
    /\ req[s].op = "confirmEmail" /\ req[s].pc = "done" /\ req[s].status = "OK"
    /\ req[s].tv.type = InviteUser /\ users[req[s].tv.relationId].lastSignIn
    /\ req[s].body = "empty" /\ users[req[s].tv.relationId].emailConfirmed

\* A confirm-email token of a user who never signed in was confirmed with the
\* empty acknowledgement.
C23_WitnessConfirm ==
  \E s \in Slots :
    /\ req[s].op = "confirmEmail" /\ req[s].pc = "done" /\ req[s].status = "OK"
    /\ req[s].tv.type = ConfirmEmail /\ ~users[req[s].tv.relationId].lastSignIn
    /\ req[s].body = "empty"

\* An invite-user token of a user who never signed in got a follow-up token.
C23_WitnessFollowUp ==
  \E s \in Slots :
    /\ req[s].op = "confirmEmail" /\ req[s].pc = "done" /\ req[s].status = "OK"
    /\ NeedsFollowUp(req[s]) /\ req[s].newToken \in DOMAIN tokens

\* ---------------------------------------------------------------- C24
\* The request of slot s validated an invite-user token of a user who never
\* signed in, on a tenant that uses neither passwords nor magic links.
OtherPolicyInvite(r) ==
  /\ r.op = "confirmEmail" /\ NeedsFollowUp(r)
  /\ environments[r.tv.environmentId].authProvider \notin {EmailAndPassword, MagicLoginProvider}

\* C24: the confirmation of an invite-user token of a never-signed-in user on
\* a tenant whose auth provider is neither EmailAndPassword nor MagicLogin
\* never succeeds, ends with an Internal error once the confirmation itself
\* went through, and stores no token on any of its steps.
C24_OtherPolicyIsInternal ==
  [][\A s \in Slots :
       (req'[s] # req[s] /\ OtherPolicyInvite(req'[s])) =>
         /\ ledger' = ledger
         /\ req'[s].pc \notin {"generateResetPasswordToken", "generateMagicLoginToken"}
         /\ req'[s].pc = "done" =>
              /\ req'[s].body = "error"
              /\ req'[s].updStatus = "" => req'[s].status = "Internal"]_vars

\* The user was confirmed, the invite deleted and the request ended Internal.
C24_Witness ==
  \E s \in Slots :
    /\ OtherPolicyInvite(req[s]) /\ req[s].pc = "done" /\ req[s].status = "Internal"
    /\ req[s].updStatus = ""
    /\ users[req[s].tv.relationId].emailConfirmed
    /\ req[s].token \notin DOMAIN tokens

\* ---------------------------------------------------------------- C25
\* The confirmEmail request found its token expired, of kind confirm-email.
RetryPath(r) ==
  /\ r.op = "confirmEmail"
  /\ r.tv.statusCode = "Expired" /\ r.tv.type = ConfirmEmail

C25_WitnessResent ==
  \E s \in Slots :
    /\ RetryPath(req[s]) /\ req[s].pc = "done" /\ req[s].emailSent
    /\ req[s].token \in DOMAIN ledger \ DOMAIN tokens
    /\ ~users[req[s].tv.relationId].emailConfirmed

\* ---------------------------------------------------------------- C26
LoginOps == {"login", "AS_login"}

\* A step of the login request of slot s, made with a tenant key.
LoginStep(s) ==
  /\ req'[s] # req[s]
  /\ req'[s].op \in LoginOps /\ req'[s].key # NoEnv

\* On a magic-link tenant no step of a login opens a session, and a login that
\* succeeds has mailed a magic-login token and answers emailSent.
C26_MagicLinkTenant ==
  \A s \in Slots :
    (LoginStep(s) /\ environments[req'[s].key].authProvider = MagicLoginProvider) =>
      /\ sessions' = sessions
      /\ req'[s].pc \in {"sendMagicLink", "done"}
      /\ req'[s].pc = "done" =>
           /\ req'[s].body \in {"emailSent", "error"}
           /\ req'[s].body = "emailSent" =>
                /\ req'[s].status = "OK"
                /\ req'[s].newToken \in DOMAIN tokens' \ DOMAIN ledger
                /\ tokens'[req'[s].newToken].type = MagicLogin
                /\ emails' # emails

\* On a password tenant a login with a password is the password
\* authentication: it succeeds exactly with session credentials of the user
\* whose password it carries, and stores and mails nothing.
C26_PasswordTenant ==
  \A s \in Slots :
    (/\ LoginStep(s)
     /\ environments[req'[s].key].authProvider = EmailAndPassword
     /\ req'[s].password # NoPassword) =>
      /\ req'[s].pc \in {"authenticateFromEmailAndPassword", "done"}
      /\ tokens' = tokens /\ ledger' = ledger /\ emails' = emails
      /\ req'[s].pc = "done" =>
           /\ req'[s].body \in {"session", "error"}
           /\ req'[s].body = "session" <=>
                (LET u == GetByEmail(req'[s].email, req'[s].key)
                 IN /\ u # 0 /\ users[u].active
                    /\ users[u].password # NoPassword
                    /\ users[u].password = Hash(req'[s].password))
           /\ req'[s].body = "session" =>
                SessionFor(req'[s].user, req'[s].key) \in sessions'

\* A password-tenant login without a password, and a login on a tenant of any
\* other provider, is Unauthorized on its first step and changes nothing.
C26_Otherwise ==
  \A s \in Slots :
    (/\ LoginStep(s)
     /\ environments[req'[s].key].authProvider # MagicLoginProvider
     /\ ~(/\ environments[req'[s].key].authProvider = EmailAndPassword
          /\ req'[s].password # NoPassword)) =>
      /\ req'[s].pc = "done" /\ req'[s].status = "Unauthorized"
      /\ emails' = emails /\ tokens' = tokens /\ ledger' = ledger
      /\ sessions' = sessions /\ users' = users

\* C26: login branches on the tenant's auth provider: on a magic-link tenant
\* it never opens a session and answers emailSent after mailing a magic link,
\* with or without a password; on a password tenant with a password it is the
\* password authentication; a password-tenant login without a password, or a
\* tenant of any other provider, is Unauthorized and sends no email.
C26_LoginBranchesOnPolicy ==
  [][C26_MagicLinkTenant /\ C26_PasswordTenant /\ C26_Otherwise]_vars

\* part_000: a login on the magic-link tenant with the right password of a
\* user who has one answered emailSent.
C26_WitnessMagicWithPassword ==
  \E s \in Slots :
    /\ req[s].op = "login" /\ req[s].pc = "done" /\ req[s].body = "emailSent"
    /\ environments[req[s].key].authProvider = MagicLoginProvider
    /\ req[s].password # NoPassword
    /\ users[req[s].user].password # NoPassword
    /\ users[req[s].user].password = Hash(req[s].password)
    /\ sessions = {}

\* part_000: a login on the tenant of another provider was Unauthorized.
C26_WitnessOtherProvider ==
  \E s \in Slots :
    /\ req[s].op = "login" /\ req[s].pc = "done" /\ req[s].status = "Unauthorized"
    /\ req[s].key # NoEnv
    /\ environments[req[s].key].authProvider = OtherAuthProvider

\* ---------------------------------------------------------------- C27
\* The emails sent to user u, as a bag.
EmailsTo(u, bag) == Restrict(bag, {e \in BagToSet(bag) : e.to = u})

\* A step of the signup request of slot s.
SignUpStep(s) == req'[s] # req[s] /\ req'[s].op \in SignUpOps

C27_SuccessSendsTwo ==
  \A s \in Slots :
    (SignUpStep(s) /\ req'[s].pc = "done" /\ req'[s].status = "Created") =>
      LET r == req'[s]
          sent == EmailsTo(r.user, emails')
      IN /\ EmailsTo(r.user, emails) = EmptyBag
         /\ BagCardinality(sent) = 2
         /\ \E e \in BagToSet(sent) :
              /\ e.template = (IF r.password # NoPassword THEN "ConfirmEmail" ELSE "MagicLink")
              /\ e.token = r.newToken
         /\ \E e \in BagToSet(sent) : e.template = "Welcome" /\ e.scheduled
         /\ BagCardinality(emails') = BagCardinality(emails) + 2

C27_OtherwiseNone ==
  \A s \in Slots :
    (SignUpStep(s) /\ ~(req'[s].pc = "done" /\ req'[s].status = "Created")) =>
      emails' = emails

\* C27: the step on which a signup succeeds sends exactly two emails to the
\* new user, who had none: the one carrying the issued token (ConfirmEmail
\* with a password, MagicLink without) and a scheduled Welcome; no other step
\* of a signup, and so no failed signup, sends any.
C27_SignUpSendsTwoEmails == [][C27_SuccessSendsTwo /\ C27_OtherwiseNone]_vars

\* part_000: a signup failed at its token after the user was created, with no
\* email sent, and another succeeded with two.
C27_WitnessBoth ==
  \E s1, s2 \in Slots :
    /\ req[s1].op = "signUp" /\ req[s1].pc = "done" /\ req[s1].status = "Internal"
    /\ req[s1].user # 0 /\ EmailsTo(req[s1].user, emails) = EmptyBag
    /\ req[s2].op = "signUp" /\ req[s2].pc = "done" /\ req[s2].status = "Created"
    /\ BagCardinality(EmailsTo(req[s2].user, emails)) = 2

\* ---------------------------------------------------------------- C28
\* C28: the user record that UserService.create or UserService.createOwner
\* handed to a signup or signup/owner request carries no password hash.
C28_NoPasswordInReturnedUser ==
  \A s \in Slots :
    req[s].op \in {"signUp", "signUpOwner"} => req[s].out = NoPassword

\* A new owner was created and returned without its password.
C28_WitnessNewOwner ==
  \E s \in Slots :
    /\ req[s].op = "signUpOwner" /\ req[s].pc = "done" /\ req[s].status = "Created"
    /\ req[s].out = NoPassword
    /\ users[req[s].user].password = Hash(req[s].password)

\* ---------------------------------------------------------------- C29
\* The signup of slot s created its user and then failed at its token.
FailedAfterUser(r) ==
  r.op = "signUp" /\ r.pc = "done" /\ r.status = "Internal" /\ r.user # 0

\* On the step on which the token creation fails, the signup fails and the
\* user it created stays, with no token and no email.
C29_UserStays ==
  \A s \in Slots :
    (req[s].op = "signUp" /\ req[s].pc = "tokenCreate" /\ req'[s].pc = "done") =>
      LET u == req[s].user
      IN /\ FailedAfterUser(req'[s])
         /\ users' = users /\ u \in DOMAIN users
         /\ TokensOf(u, ConfirmEmail, tokens') = {}
         /\ TokensOf(u, MagicLogin, tokens') = {}
         /\ EmailsTo(u, emails') = EmptyBag
         /\ SessionsOf(u, sessions') = {}

\* The same signup made again, right after, is refused with Conflict.
C29_RepeatIsConflict ==
  \A s \in Slots :
    (/\ FailedAfterUser(req[s])
     /\ req'[s] # req[s] /\ req'[s].op = "signUp"
     /\ req'[s].email = req[s].email /\ req'[s].key = req[s].key
     /\ req'[s].password = req[s].password) =>
      req'[s].pc = "done" /\ req'[s].status = "Conflict"

\* C29: a signup whose token creation fails after its user was created fails
\* and leaves that user in the directory with no confirm-email or magic-login
\* token, no session and no email; the same signup made again is refused with
\* Conflict.
C29_SignUpIsNotRolledBack == [][C29_UserStays /\ C29_RepeatIsConflict]_vars

\* The first half alone.
C29_FailedSignUpLeavesUser == [][C29_UserStays]_vars

C29_WitnessFailed ==
  \E s \in Slots :
    /\ FailedAfterUser(req[s]) /\ req[s].user \in DOMAIN users
    /\ TokensOf(req[s].user, MagicLogin, tokens) = {}

\* ---------------------------------------------------------------- C30
\* The rows of environment e in the table tbl.
TemplatesOf(e, tbl) == {t \in tbl : t.environmentId = e}

MapperTypes == {emailTemplatesMapper[i] : i \in DOMAIN emailTemplatesMapper}

\* A step of the createDefaultTemplates call of slot s.
TemplatesStep(s) == req'[s] # req[s] /\ req'[s].op = "createDefaultTemplates"

\* When a call returns without error its environment holds one row per type
\* of the mapper, each made by this call.
C30_ResetOnReturn ==
  \A s \in Slots :
    (TemplatesStep(s) /\ req'[s].pc = "done" /\ req'[s].status = "OK") =>
      LET rows == TemplatesOf(req'[s].key, emailTemplates')
      IN /\ \A ty \in MapperTypes : Cardinality({t \in rows : t.type = ty}) = 1
         /\ \A t \in rows : t.type \in MapperTypes /\ t.by = req'[s].call

\* No step of a call touches the rows of another environment.
C30_OthersUnchanged ==
  \A s \in Slots :
    TemplatesStep(s) =>
      \A e \in Envs \ {req'[s].key} :
        TemplatesOf(e, emailTemplates') = TemplatesOf(e, emailTemplates)

\* A call that fails ends with the Internal error value, nothing thrown.
C30_FailureIsAValue ==
  \A s \in Slots :
    (TemplatesStep(s) /\ req'[s].pc = "done" /\ req'[s].status # "OK") =>
      req'[s].status = "Internal" /\ req'[s].body = "errorValue"

\* C30: when createDefaultTemplates(env) returns without error, env holds
\* exactly one template per type of the default mapper, all made by that call
\* and none from before; no step of it changes the templates of another
\* environment; a failing step makes it return the Internal error value.
C30_CreateDefaultTemplatesResets ==
  [][C30_ResetOnReturn /\ C30_OthersUnchanged /\ C30_FailureIsAValue]_vars

\* Two calls for one environment, one after the other, both returned without
\* error and the environment holds one row per type.
C30_WitnessTwice ==
  \E s \in Slots :
    /\ req[s].op = "createDefaultTemplates" /\ req[s].pc = "done" /\ req[s].status = "OK"
    /\ req[s].call = 2
    /\ Cardinality(TemplatesOf(req[s].key, emailTemplates)) = Len(emailTemplatesMapper)

====
